---- MODULE Spec2Model ----
(***************************************************************************)
(* Session / credential lifecycle of the SIWE + JWT authentication API:    *)
(* AuthService (getNonce, signIn, refresh, signOut), the JwtStrategy       *)
(* access guard and the Redis-backed session store.                        *)
(*                                                                         *)
(* Every request is an async function: it runs atomically between two      *)
(* awaits and the requests in flight interleave at their store accesses.   *)
(* One action is one such atomic piece, named after the method and the     *)
(* store access it ends with.  A piece that touches no shared state (the   *)
(* synchronous prefix of a method, a pure verification) is folded into     *)
(* the store access that follows it.                                       *)
(***************************************************************************)
EXTENDS Integers, FiniteSets, Sequences, TLC

(* ------------------------------ bounds -------------------------------- *)

\* The clock runs over the seconds 0..MaxNow.
MaxNow == 1

\* The number of nonces generated in a run of requests served concurrently.
MaxNonce == 3

\* The number of nonces generated in a run of requests served one at a time.
MaxNonceSeq == 4

\* Request slots: the requests that can be in flight together.
Proc == {"p1", "p2"}

\* The syntactically valid addresses; each is controlled by one key.
Addr == {"A", "B"}

\* What clients may send as an address: the valid ones and a malformed one.
AddrInput == Addr \cup {"zz"}

Keys == {"kA", "kB"}

\* The address a private key controls.
KeyAddress(k) == IF k = "kA" THEN "A" ELSE "B"

(* --------------------------- configuration ---------------------------- *)

\* jwt.accessExpiresIn / jwt.refreshExpiresIn as parseDuration returns them
\* for JWT_ACCESS_EXPIRES_IN = "1s" and JWT_REFRESH_EXPIRES_IN = "2s": a number
\* of milliseconds.
Configs ==
    { [accessExpiresIn |-> 1000, refreshExpiresIn |-> 2000] }

VARIABLES
    cfg,        \* the configuration the service was constructed with
    now,        \* the clock, in seconds
    users,      \* identity store: publicAddress -> [id, publicAddress, nonce, username]
    nextId,     \* the identity store's id generator
    redis,      \* session store: key -> [val, persist, expireAt]
    nonceCtr,   \* the number of nonces generated so far
    pc,         \* per request slot: where the request is suspended
    loc,        \* per request slot: the locals of the suspended request
    last,       \* the response the last step sent, if it sent one
    okDtos,     \* history: sign-in DTO -> number of signIn calls that returned tokens for it
    written,    \* history: per address, the access tokens written to its slot and returned
    revoked,    \* history: per address, the access tokens written before a signOut
    superseded, \* history: per address, refresh tokens of sign-ins followed by a completed sign-in
    refreshOf,  \* history: per address, the refresh tokens returned by signIn
    oldNonces,  \* history: per address, the nonces that were stored and then replaced
    returned,   \* history: per address, the nonces getNonce returned, in order
    chain,      \* the AuthorizedUserProfile contract: roles, jwtTokens, the last transaction
    http        \* what AuthController has sent out: the client's cookies, the mirror calls

vars == << cfg, now, users, nextId, redis, nonceCtr, pc, loc, last,
           okDtos, written, revoked, superseded, refreshOf, oldNonces, returned,
           chain, http >>

hist == << okDtos, written, revoked, superseded, refreshOf, oldNonces, returned >>

(* ---------------------------- pure helpers ---------------------------- *)

\* ethers.isAddress
checkIfAddressIsValid(address) == address \in Addr

\* `${type}:${publicAddress}`
getTokenKey(type, publicAddress) == << type, publicAddress >>

\* generateNonce weakened: the value of the previous call once more.
generateNonce_Repeat == IF nonceCtr = 0 THEN 1 ELSE nonceCtr

\* siwe generateNonce(): a fresh value on every call.
generateNonce == nonceCtr + 1

\* jsonwebtoken sign: the token string is a function of the secret, the payload
\* and the clock second; a numeric expiresIn is a number of seconds.
signAsync(payload, secret, expiresIn, t) ==
    [secret |-> secret, payload |-> payload, iat |-> t, exp |-> t + expiresIn]

\* jsonwebtoken verify (ignoreExpiration: false): signature, then exp.
verifyAsync(token, secret, t) ==
    /\ token.secret = secret
    /\ t < token.exp

\* new SiweMessage(message): throws on a string that is no SIWE message or
\* whose address is not a valid address.
SiweParses(message) == message.parses /\ message.address \in Addr

\* SiweVerify weakened: the signer's address is not compared.
SiweVerify_AnySigner(message, signature, nonce) ==
    /\ message.nonce = nonce
    /\ signature.wellFormed
    /\ signature.signs = "this"

\* siweMessage.verify({signature, nonce}): the message's nonce is the expected
\* one and the signature recovers to the message's address.
SiweVerify(message, signature, nonce) ==
    /\ message.nonce = nonce
    /\ signature.wellFormed
    /\ signature.signs = "this"
    /\ KeyAddress(signature.key) = message.address

NoLoc == [op |-> "none"]
NoRes == [op |-> "none", status |-> 0]

Fail(op, status, error) == [op |-> op, status |-> status, error |-> error]
Ok(op) == [op |-> op, status |-> 200, error |-> ""]

\* The store's entry under a key, or absent.
Has(key) == key \in DOMAIN redis
RedisGet(key) == redis[key].val

\* RedisService.set: SETEX when ttlSeconds is truthy, else a plain SET.
RedisSet(store, key, value, ttlSeconds) ==
    LET entry == IF ttlSeconds > 0
                 THEN [val |-> value, persist |-> FALSE, expireAt |-> now + ttlSeconds]
                 ELSE [val |-> value, persist |-> TRUE, expireAt |-> 0]
    IN  [k \in DOMAIN store \cup {key} |-> IF k = key THEN entry ELSE store[k]]

\* AuthService.storeToken: the TTL is Math.floor(ttl / 1000) seconds.
storeToken(store, type, publicAddress, token, ttl) ==
    RedisSet(store, getTokenKey(type, publicAddress), token, ttl \div 1000)

\* RedisService.delete(...keys)
RedisDelete(store, keys) == [k \in DOMAIN store \ keys |-> store[k]]

(* ----------------------------- parseDuration --------------------------- *)

\* A string is the sequence of its characters.
DigitChars == << "0", "1", "2", "3", "4", "5", "6", "7", "8", "9" >>
IsDigit(c) == \E n \in 1..10 : DigitChars[n] = c
DigitValue(c) == (CHOOSE n \in 1..10 : DigitChars[n] = c) - 1

\* const units = { d, h, m, s, ms } in milliseconds.
units == [d |-> 24 * 60 * 60 * 1000, h |-> 60 * 60 * 1000, m |-> 60 * 1000,
          s |-> 1000, ms |-> 1]

\* The unit alternation of the regex weakened: 'ms' is tried before 'm'.
alternation_LongestFirst ==
    << [chars |-> << "m", "s" >>, unit |-> "ms"],
       [chars |-> << "d" >>, unit |-> "d"], [chars |-> << "h" >>, unit |-> "h"],
       [chars |-> << "m" >>, unit |-> "m"], [chars |-> << "s" >>, unit |-> "s"] >>

\* The unit alternation (d|h|m|s|ms) of the regex, tried left to right.
alternation ==
    << [chars |-> << "d" >>, unit |-> "d"], [chars |-> << "h" >>, unit |-> "h"],
       [chars |-> << "m" >>, unit |-> "m"], [chars |-> << "s" >>, unit |-> "s"],
       [chars |-> << "m", "s" >>, unit |-> "ms"] >>

\* The string has `chars` at position i.
HasAt(str, i, chars) ==
    /\ i + Len(chars) - 1 <= Len(str)
    /\ \A k \in 1..Len(chars) : str[i + k - 1] = chars[k]

\* The position after the run of characters satisfying `digit` (\d+ when TRUE,
\* \s* when FALSE) that starts at i.
RECURSIVE RunEnd(_, _, _)
RunEnd(str, i, digit) ==
    IF i <= Len(str) /\ (IF digit THEN IsDigit(str[i]) ELSE str[i] = " ")
    THEN RunEnd(str, i + 1, digit)
    ELSE i

\* Number(value) of the digits str[i..j-1].
RECURSIVE Number(_, _, _)
Number(str, i, j) ==
    IF j <= i THEN 0
    ELSE 10 * Number(str, i, j - 1) + DigitValue(str[j - 1])

\* One attempt of /(\d+)\s*(d|h|m|s|ms)/ at position i: the digits, the
\* spaces, then the first alternative that is there.
MatchAt(str, i) ==
    LET digitsEnd == RunEnd(str, i, TRUE)
        unitAt == RunEnd(str, digitsEnd, FALSE)
        fits == { n \in 1..Len(alternation) : HasAt(str, unitAt, alternation[n].chars) }
    IN IF digitsEnd = i \/ fits = {}
       THEN [found |-> FALSE]
       ELSE LET first == alternation[CHOOSE n \in fits : \A k \in fits : n <= k]
            IN [found |-> TRUE, value |-> Number(str, i, digitsEnd),
                unit |-> first.unit, end |-> unitAt + Len(first.chars)]

\* The loop over str.matchAll(regex) from position i on: every match adds
\* Number(value) * units[unit] to total.  (total starts as null and becomes 0
\* at the first match; null and 0 are both falsy at the return.)
RECURSIVE matchAll(_, _, _)
matchAll(str, i, total) ==
    IF i > Len(str) THEN total
    ELSE LET match == MatchAt(str, i) IN
         IF match.found
         THEN matchAll(str, match.end, total + match.value * units[match.unit])
         ELSE matchAll(str, i + 1, total)

\* NaN, told apart from every number parseDuration can return (none is
\* negative).
NaN == 0 - 1

\* parseInt(str): the leading run of spaces is skipped and the digits that
\* follow are the number; NaN when there is none.
parseInt(str) ==
    LET start == RunEnd(str, 1, FALSE)
        end == RunEnd(str, start, TRUE)
    IN IF end = start THEN NaN ELSE Number(str, start, end)

\* return total || parseInt(str)
parseDuration(str) ==
    LET total == matchAll(str, 1, 0) IN
    IF total # 0 THEN total ELSE parseInt(str)

\* Values of JWT_ACCESS_EXPIRES_IN / JWT_REFRESH_EXPIRES_IN.
EnvValues ==
    { << "1", "h" >>, << "7", "d" >>, << "1", "5", "m" >>, << "3", "0", "s" >>,
      << "5", "0", "0", "m", "s" >>, << "1", "m", " ", "3", "0", "s" >>,
      << "2", " ", "h" >>, << "5", "0", "0" >>, << "0", "s" >>,
      << "a", "b", "c" >>, << "9", "0", "x" >> }

\* The configuration before the process has read its environment.
NoConfig == [accessExpiresIn |-> 0, refreshExpiresIn |-> 0, env |-> << >>]

\* configuration.ts: the jwt section computed from the environment.
Configured(access, refresh) ==
    [accessExpiresIn |-> parseDuration(access),
     refreshExpiresIn |-> parseDuration(refresh),
     env |-> << access, refresh >>]

(* ---------------------- AuthorizedUserProfile.sol ---------------------- *)

\* The accounts that send transactions: the deployer, the backend's wallet
\* and the users' own addresses.
Accounts == {"deployer", "backend"} \cup Addr

\* The strings passed as a JWT; "" is the empty string.
JwtStrings == {"", "j1", "j2"}

\* The strings passed as a new username.
NewUsernames == {"neo"}

\* No transaction yet.
NoTx == [fn |-> "none", caller |-> "", user |-> "", jwt |-> "",
         reverted |-> FALSE, error |-> "", events |-> {}]

\* The contract after its constructor: the deployer holds DEFAULT_ADMIN_ROLE,
\* nobody holds BACKEND_ROLE, and every jwtTokens[user] is the empty string.
\* History: everSet is the users setJwt has written, prev[user] the value the
\* last setJwt for user replaced.
ChainInit ==
    [admins |-> {"deployer"}, backends |-> {},
     jwtTokens |-> [a \in Addr |-> ""], tx |-> NoTx,
     everSet |-> {}, prev |-> [a \in Addr |-> ""]]

\* The record of a transaction that reverted.
Reverted(fn, caller, user, jwt, error) ==
    [fn |-> fn, caller |-> caller, user |-> user, jwt |-> jwt,
     reverted |-> TRUE, error |-> error, events |-> {}]

\* The record of a transaction that went through, with the events it emitted.
Mined(fn, caller, user, jwt, events) ==
    [fn |-> fn, caller |-> caller, user |-> user, jwt |-> jwt,
     reverted |-> FALSE, error |-> "", events |-> events]

\* keccak256(bytes(a)) == keccak256(bytes(b)): equality of the strings.
SameKeccak(a, b) == a = b

\* What the API and the clock keep while a transaction is mined.
OffChain == << cfg, http, now, users, nextId, redis, nonceCtr, pc, loc, last, hist >>

\* AccessControl.grantRole(BACKEND_ROLE, account), restricted to the admins.
grantRole(caller, account) ==
    /\ chain' =
          IF caller \in chain.admins
          THEN [chain EXCEPT !.backends = @ \cup {account},
                             !.tx = Mined("grantRole", caller, account, "", {})]
          ELSE [chain EXCEPT !.tx = Reverted("grantRole", caller, account, "",
                                             "AccessControlUnauthorizedAccount")]
    /\ UNCHANGED OffChain

\* AccessControl.revokeRole(BACKEND_ROLE, account), restricted to the admins.
revokeRole(caller, account) ==
    /\ chain' =
          IF caller \in chain.admins
          THEN [chain EXCEPT !.backends = @ \ {account},
                             !.tx = Mined("revokeRole", caller, account, "", {})]
          ELSE [chain EXCEPT !.tx = Reverted("revokeRole", caller, account, "",
                                             "AccessControlUnauthorizedAccount")]
    /\ UNCHANGED OffChain

\* setJwt without its modifier.
setJwt_NoRole(caller, user, jwt) ==
    /\ chain' = [chain EXCEPT !.jwtTokens[user] = jwt,
                              !.everSet = @ \cup {user},
                              !.prev[user] = chain.jwtTokens[user],
                              !.tx = Mined("setJwt", caller, user, jwt, {})]
    /\ UNCHANGED OffChain

\* setJwt(user, jwt) public onlyRole(BACKEND_ROLE).
setJwt(caller, user, jwt) ==
    /\ chain' =
          IF caller \in chain.backends
          THEN [chain EXCEPT !.jwtTokens[user] = jwt,
                             !.everSet = @ \cup {user},
                             !.prev[user] = chain.jwtTokens[user],
                             !.tx = Mined("setJwt", caller, user, jwt, {})]
          ELSE [chain EXCEPT !.tx = Reverted("setJwt", caller, user, jwt,
                                             "AccessControlUnauthorizedAccount")]
    /\ UNCHANGED OffChain

\* setUsername weakened: any non-empty jwt passes.
setUsername_NonEmpty(caller, user, jwt, newUsername) ==
    /\ chain' =
          IF jwt = ""
          THEN [chain EXCEPT !.tx = Reverted("setUsername", caller, user, jwt,
                                             "InvalidJwt")]
          ELSE [chain EXCEPT !.tx = Mined("setUsername", caller, user, jwt,
                                          {<< "UsernameUpdated", user, newUsername >>})]
    /\ UNCHANGED OffChain

\* setUsername(user, jwt, newUsername) public.
setUsername(caller, user, jwt, newUsername) ==
    /\ chain' =
          IF ~SameKeccak(jwt, chain.jwtTokens[user])
          THEN [chain EXCEPT !.tx = Reverted("setUsername", caller, user, jwt,
                                             "InvalidJwt")]
          ELSE [chain EXCEPT !.tx = Mined("setUsername", caller, user, jwt,
                                          {<< "UsernameUpdated", user, newUsername >>})]
    /\ UNCHANGED OffChain

\* The transactions any account can send to the contract.
NextContract ==
    \/ \E caller \in Accounts, account \in Accounts : grantRole(caller, account)
    \/ \E caller \in Accounts, account \in Accounts : revokeRole(caller, account)
    \/ \E caller \in Accounts, user \in Addr, jwt \in JwtStrings :
          setJwt(caller, user, jwt)
    \/ \E caller \in Accounts, user \in Addr, jwt \in JwtStrings,
          newUsername \in NewUsernames :
          setUsername(caller, user, jwt, newUsername)

\* The client's cookie jar with neither cookie.  A cookie is a set holding
\* its token, empty when the cookie is absent.
NoCookies == [accessToken |-> {}, refreshToken |-> {}]

(* ------------------------------- Init --------------------------------- *)

Init ==
    /\ cfg \in Configs
    /\ now = 0
    /\ users = << >>
    /\ nextId = 1
    /\ redis = << >>
    /\ nonceCtr = 0
    /\ pc = [p \in Proc |-> "idle"]
    /\ loc = [p \in Proc |-> NoLoc]
    /\ last = NoRes
    /\ okDtos = << >>
    /\ written = [a \in Addr |-> {}]
    /\ revoked = [a \in Addr |-> {}]
    /\ superseded = [a \in Addr |-> {}]
    /\ refreshOf = [a \in Addr |-> {}]
    /\ oldNonces = [a \in Addr |-> {}]
    /\ returned = [a \in Addr |-> << >>]
    /\ chain = ChainInit
    /\ http = [jar |-> NoCookies, mirrored |-> {}]

(* -------------------------- request plumbing --------------------------- *)

\* A new request takes the first free slot.
Free(p) ==
    /\ pc[p] = "idle"
    /\ p = "p2" => pc["p1"] # "idle"

\* The request in slot p ends with response r.
Return(p, r) ==
    /\ pc' = [pc EXCEPT ![p] = "idle"]
    /\ loc' = [loc EXCEPT ![p] = NoLoc]
    /\ last' = r

\* The request in slot p suspends at label l with locals v.
Suspend(p, l, v) ==
    /\ pc' = [pc EXCEPT ![p] = l]
    /\ loc' = [loc EXCEPT ![p] = v]
    /\ last' = NoRes

\* The identity store's update({where: {publicAddress}, data: {nonce}}).
UpdateNonce(store, address, nonce) ==
    [store EXCEPT ![address].nonce = nonce]

\* The identity store's create(data).
Create(store, user) ==
    [a \in DOMAIN store \cup {user.publicAddress} |->
        IF a = user.publicAddress THEN user ELSE store[a]]

\* The nonces replaced by an update of the identity of `address`.
Replaced(store, address) ==
    [oldNonces EXCEPT ![address] = @ \cup {store[address].nonce}]

(* ------------------------------ getNonce ------------------------------ *)

\* How getNonce answers an address before any store access.
getNonceChecks(address) ==
    IF ~checkIfAddressIsValid(address)
    THEN Fail("getNonce", 400, "Invalid address")
    ELSE Ok("getNonce")

\* getNonce up to its write: address check, findUnique, generateNonce.  A
\* call that fails the check is answered with the error and is no step.
getNonceFind(p, address) ==
    /\ Free(p)
    /\ getNonceChecks(address).status = 200
    /\ nonceCtr' = nonceCtr + 1
    /\ Suspend(p, "gn_write",
               [op |-> "getNonce", address |-> address,
                found |-> address \in DOMAIN users,
                nonce |-> generateNonce])
    /\ UNCHANGED << cfg, chain, http, now, users, nextId, redis, hist >>

\* getNonceWrite weakened: a new nonce for an existing identity ends its
\* session.
getNonceWrite_EndsSession(p) ==
    /\ pc[p] = "gn_write"
    /\ LET address == loc[p].address
           nonce == loc[p].nonce
       IN IF ~loc[p].found
          THEN IF \/ address \in DOMAIN users
                  \/ \E b \in DOMAIN users : users[b].username = << "user-", address >>
               THEN /\ Return(p, Fail("getNonce", 500, "Internal server error"))
                    /\ UNCHANGED << users, nextId, oldNonces, returned >>
               ELSE /\ users' = Create(users,
                          [id |-> nextId, publicAddress |-> address,
                           nonce |-> nonce, username |-> << "user-", address >>])
                    /\ nextId' = nextId + 1
                    /\ Return(p, [op |-> "getNonce", status |-> 200, error |-> "",
                                  nonce |-> users'[address].nonce,
                                  address |-> users'[address].publicAddress])
                    /\ returned' = [returned EXCEPT ![address] = Append(@, nonce)]
                    /\ UNCHANGED oldNonces
          ELSE /\ users' = UpdateNonce(users, address, nonce)
               /\ oldNonces' = Replaced(users, address)
               /\ Return(p, [op |-> "getNonce", status |-> 200, error |-> "",
                             nonce |-> users'[address].nonce,
                             address |-> users'[address].publicAddress])
               /\ returned' = [returned EXCEPT ![address] =
                                  Append(@, users'[address].nonce)]
               /\ UNCHANGED nextId
    /\ redis' = IF loc[p].found
                THEN RedisDelete(redis, { getTokenKey("access", loc[p].address),
                                          getTokenKey("refresh", loc[p].address) })
                ELSE redis
    /\ UNCHANGED << cfg, chain, http, now, nonceCtr,
                    okDtos, written, revoked, superseded, refreshOf >>

\* getNonce's write (create when findUnique found nothing, else update) and
\* its return.  create fails on the unique indexes of publicAddress and of
\* username.
getNonceWrite(p) ==
    /\ pc[p] = "gn_write"
    /\ LET address == loc[p].address
           nonce == loc[p].nonce
       IN IF ~loc[p].found
          THEN IF \/ address \in DOMAIN users
                  \/ \E b \in DOMAIN users : users[b].username = << "user-", address >>
               THEN /\ Return(p, Fail("getNonce", 500, "Internal server error"))
                    /\ UNCHANGED << users, nextId, oldNonces, returned >>
               ELSE /\ users' = Create(users,
                          [id |-> nextId, publicAddress |-> address,
                           nonce |-> nonce, username |-> << "user-", address >>])
                    /\ nextId' = nextId + 1
                    /\ Return(p, [op |-> "getNonce", status |-> 200, error |-> "",
                                  nonce |-> users'[address].nonce,
                                  address |-> users'[address].publicAddress])
                    /\ returned' = [returned EXCEPT ![address] = Append(@, nonce)]
                    /\ UNCHANGED oldNonces
          ELSE /\ users' = UpdateNonce(users, address, nonce)
               /\ oldNonces' = Replaced(users, address)
               /\ Return(p, [op |-> "getNonce", status |-> 200, error |-> "",
                             nonce |-> users'[address].nonce,
                             address |-> users'[address].publicAddress])
               /\ returned' = [returned EXCEPT ![address] =
                                  Append(@, users'[address].nonce)]
               /\ UNCHANGED nextId
    /\ UNCHANGED << cfg, chain, http, now, redis, nonceCtr,
                    okDtos, written, revoked, superseded, refreshOf >>

(* ------------------------------- signIn ------------------------------- *)

\* What a client may send as a sign-in DTO: a nonce that was generated or one
\* that never was (0); a string that is no SIWE message, or a message for a
\* valid address that carries the DTO's nonce or another one (0); a malformed
\* signature, the signature of this message by the key of either address, or
\* the signature of another message by the key of the message's address.
Signatures(address) ==
    { [wellFormed |-> FALSE, key |-> "kA", signs |-> "this"] } \cup
    { [wellFormed |-> TRUE, key |-> k, signs |-> "this"] : k \in Keys } \cup
    { [wellFormed |-> TRUE, key |-> k, signs |-> "other"] :
        k \in { k \in Keys : KeyAddress(k) = address } }

SignInDTOs ==
    { [message |-> [parses |-> FALSE, address |-> "", nonce |-> 0],
       signature |-> [wellFormed |-> FALSE, key |-> "kA", signs |-> "this"],
       nonce |-> 0] } \cup
    UNION { { [message |-> [parses |-> TRUE, address |-> a, nonce |-> k],
               signature |-> s, nonce |-> n] :
                k \in {n, 0}, s \in Signatures(a) } :
            a \in Addr, n \in 0..nonceCtr }

\* signInChecks weakened: the DTO's nonce is not compared with the stored one.
signInChecks_NoNonceCompare(dto) ==
    LET address == dto.message.address IN
    IF ~SiweParses(dto.message)
    THEN Fail("signIn", 400, "Invalid SIWE message")
    ELSE IF ~checkIfAddressIsValid(address)
    THEN Fail("signIn", 400, "Address is not valid!")
    ELSE IF address \notin DOMAIN users
    THEN Fail("signIn", 400, "User not found")
    ELSE IF ~SiweVerify(dto.message, dto.signature, users[address].nonce)
    THEN Fail("signIn", 401, "SIWE verification failed")
    ELSE Ok("signIn")

\* How signIn answers a DTO in the present state of the identity store, up
\* to its first write: parse, address check, findUnique, nonce comparison,
\* SIWE verification.  Status 200 stands for "goes on to the writes".  A
\* verify that throws and one that returns success false both end in 401; the
\* error text kept here is the prefix the two messages share.
signInChecks(dto) ==
    LET address == dto.message.address IN
    IF ~SiweParses(dto.message)
    THEN Fail("signIn", 400, "Invalid SIWE message")
    ELSE IF ~checkIfAddressIsValid(address)
    THEN Fail("signIn", 400, "Address is not valid!")
    ELSE IF address \notin DOMAIN users
    THEN Fail("signIn", 400, "User not found")
    ELSE IF users[address].nonce # dto.nonce
    THEN Fail("signIn", 401, "Invalid nonce")
    ELSE IF ~SiweVerify(dto.message, dto.signature, users[address].nonce)
    THEN Fail("signIn", 401, "SIWE verification failed")
    ELSE Ok("signIn")

\* signIn up to its first write: the checks, then generateNonce.  A call
\* that fails a check is answered with the error and is no step.
signInCheck(p, dto) ==
    /\ Free(p)
    /\ signInChecks(dto).status = 200
    /\ nonceCtr' = nonceCtr + 1
    /\ Suspend(p, "si_update",
               [op |-> "signIn", dto |-> dto,
                address |-> dto.message.address,
                user |-> users[dto.message.address],
                nextNonce |-> generateNonce])
    /\ UNCHANGED << cfg, chain, http, now, users, nextId, redis, hist >>

\* signInUpdate weakened: the nonce is left as it is.
signInUpdate_NoRotation(p) ==
    /\ pc[p] = "si_update"
    /\ Suspend(p, "si_sign", loc[p])
    /\ UNCHANGED << cfg, chain, http, now, users, nextId, redis, nonceCtr, hist >>

\* signIn's update of the identity's nonce.
signInUpdate(p) ==
    /\ pc[p] = "si_update"
    /\ users' = UpdateNonce(users, loc[p].address, loc[p].nextNonce)
    /\ oldNonces' = Replaced(users, loc[p].address)
    /\ Suspend(p, "si_sign", loc[p])
    /\ UNCHANGED << cfg, chain, http, now, nextId, redis, nonceCtr,
                    okDtos, written, revoked, superseded, refreshOf, returned >>

\* signIn's two signAsync calls: both tokens carry the identity as it was
\* read by findUnique and are signed in the same clock second.
signInSign(p) ==
    /\ pc[p] = "si_sign"
    /\ LET payload == loc[p].user
           accessToken == signAsync(payload, "access", cfg.accessExpiresIn, now)
           refreshToken == signAsync(payload, "refresh", cfg.refreshExpiresIn, now)
       IN Suspend(p, "si_store",
                     [op |-> "signIn", dto |-> loc[p].dto, address |-> loc[p].address,
                      accessToken |-> accessToken, refreshToken |-> refreshToken])
    /\ UNCHANGED << cfg, chain, http, now, users, nextId, redis, nonceCtr, hist >>

\* signIn's two storeToken calls (issued back to back on the one connection)
\* and its return.
signInStore(p) ==
    /\ pc[p] = "si_store"
    /\ LET address == loc[p].address
           dto == loc[p].dto
       IN /\ redis' = storeToken(
                        storeToken(redis, "access", address,
                                   loc[p].accessToken, cfg.accessExpiresIn),
                        "refresh", address, loc[p].refreshToken, cfg.refreshExpiresIn)
          /\ Return(p, [op |-> "signIn", status |-> 200, error |-> "",
                        address |-> address,
                        accessToken |-> loc[p].accessToken,
                        refreshToken |-> loc[p].refreshToken])
          /\ okDtos' = [d \in DOMAIN okDtos \cup {dto} |->
                          IF d \in DOMAIN okDtos
                          THEN (IF d = dto THEN okDtos[d] + 1 ELSE okDtos[d])
                          ELSE 1]
          /\ written' = [written EXCEPT ![address] = @ \cup {loc[p].accessToken}]
          /\ superseded' = [superseded EXCEPT ![address] = @ \cup refreshOf[address]]
          /\ refreshOf' = [refreshOf EXCEPT ![address] = @ \cup {loc[p].refreshToken}]
    /\ UNCHANGED << cfg, chain, http, now, users, nextId, nonceCtr,
                    revoked, oldNonces, returned >>

(* ------------------------------- tokens ------------------------------- *)

\* The tokens clients hold: every token a response has carried.
KnownTokens == UNION { written[a] \cup refreshOf[a] : a \in Addr }

\* A token of an earlier session of A, expired by now: signed before second 0.
PastPayload ==
    [id |-> 1, publicAddress |-> "A", nonce |-> 0, username |-> << "user-", "A" >>]

\* Tokens that carry a valid signature and no id, or no publicAddress.
CraftedTokens ==
    { signAsync(PastPayload, s, 1, 0 - 1) : s \in {"access", "refresh"} } \cup
    { signAsync([PastPayload EXCEPT !.id = 0], "access", 1000, 0) } \cup
    { signAsync([PastPayload EXCEPT !.publicAddress = ""], s, 1000, 0) :
        s \in {"access", "refresh"} }

\* What a client may present as a token: a token it holds, the same with
\* another signature, a token of the other type, or a crafted one.
TokenInputs ==
    KnownTokens \cup { [t EXCEPT !.secret = "forged"] : t \in KnownTokens }
                \cup CraftedTokens

\* Authorization headers: passport-jwt reads the scheme case-insensitively.
Headers ==
    { [scheme |-> "Bearer ", token |-> t] : t \in TokenInputs } \cup
    { [scheme |-> "bearer ", token |-> t] : t \in KnownTokens }

\* authHeader.replace('Bearer ', ''): the token when the header starts with
\* exactly that scheme, else the whole header.
replaceBearer(header) ==
    [bare |-> header.scheme = "Bearer ", token |-> header.token]

\* SlotHolds weakened: only the presence of the entry is tested.
SlotHolds_Present(key, presented) ==
    /\ Has(key)
    /\ presented.bare

\* storedToken && storedToken === token, for the entry under `key`.
SlotHolds(key, presented) ==
    /\ Has(key)
    /\ presented.bare
    /\ RedisGet(key) = presented.token

(* ------------------------------- refresh ------------------------------ *)

\* How refresh answers a token up to its store read: verifyAsync with the
\* refresh secret, then the payload's publicAddress.
refreshChecks(refreshToken) ==
    IF ~verifyAsync(refreshToken, "refresh", now)
    THEN Fail("refresh", 401, "Invalid refresh token")
    ELSE IF refreshToken.payload.publicAddress = ""
    THEN Fail("refresh", 401, "Invalid token payload")
    ELSE Ok("refresh")

\* refresh up to its store read.  A call that fails a check is answered with
\* the error and is no step.
refreshVerify(p, refreshToken) ==
    /\ Free(p)
    /\ refreshChecks(refreshToken).status = 200
    /\ Suspend(p, "rf_get",
               [op |-> "refresh", refreshToken |-> refreshToken,
                decoded |-> refreshToken.payload])
    /\ UNCHANGED << cfg, chain, http, now, users, nextId, redis, nonceCtr, hist >>

\* refreshGet weakened: a token that is not the stored one ends the session
\* of its address.
refreshGet_Revokes(p) ==
    /\ pc[p] = "rf_get"
    /\ IF ~SlotHolds(getTokenKey("refresh", loc[p].decoded.publicAddress),
                     [bare |-> TRUE, token |-> loc[p].refreshToken])
       THEN /\ redis' = RedisDelete(redis,
                            { getTokenKey("access", loc[p].decoded.publicAddress),
                              getTokenKey("refresh", loc[p].decoded.publicAddress) })
            /\ Return(p, Fail("refresh", 401, "Refresh token not found or expired"))
       ELSE /\ redis' = redis
            /\ Suspend(p, "rf_sign", loc[p])
    /\ UNCHANGED << cfg, chain, http, now, users, nextId, nonceCtr, hist >>

\* refresh's read of the refresh slot and the comparison.
refreshGet(p) ==
    /\ pc[p] = "rf_get"
    /\ IF ~SlotHolds(getTokenKey("refresh", loc[p].decoded.publicAddress),
                     [bare |-> TRUE, token |-> loc[p].refreshToken])
       THEN Return(p, Fail("refresh", 401, "Refresh token not found or expired"))
       ELSE Suspend(p, "rf_sign", loc[p])
    /\ UNCHANGED << cfg, chain, http, now, users, nextId, redis, nonceCtr, hist >>

\* refreshSign weakened: the payload is the identity's current record.
refreshSign_Current(p) ==
    /\ pc[p] = "rf_sign"
    /\ Suspend(p, "rf_store",
               [op |-> "refresh", refreshToken |-> loc[p].refreshToken,
                decoded |-> loc[p].decoded,
                accessToken |-> signAsync(users[loc[p].decoded.publicAddress],
                                          "access", cfg.accessExpiresIn, now)])
    /\ UNCHANGED << cfg, chain, http, now, users, nextId, redis, nonceCtr, hist >>

\* refresh's signAsync: the payload is the refresh token's, without iat and exp.
refreshSign(p) ==
    /\ pc[p] = "rf_sign"
    /\ Suspend(p, "rf_store",
               [op |-> "refresh", refreshToken |-> loc[p].refreshToken,
                decoded |-> loc[p].decoded,
                accessToken |-> signAsync(loc[p].decoded, "access",
                                          cfg.accessExpiresIn, now)])
    /\ UNCHANGED << cfg, chain, http, now, users, nextId, redis, nonceCtr, hist >>

\* refreshStore weakened: the refresh token is consumed by the refresh.
refreshStore_ConsumesRefresh(p) ==
    /\ pc[p] = "rf_store"
    /\ LET publicAddress == loc[p].decoded.publicAddress IN
       /\ redis' = RedisDelete(storeToken(redis, "access", publicAddress,
                                          loc[p].accessToken, cfg.accessExpiresIn),
                               { getTokenKey("refresh", publicAddress) })
       /\ written' = [written EXCEPT ![publicAddress] = @ \cup {loc[p].accessToken}]
       /\ Return(p, [op |-> "refresh", status |-> 200, error |-> "",
                     accessToken |-> loc[p].accessToken])
    /\ UNCHANGED << cfg, chain, http, now, users, nextId, nonceCtr,
                    okDtos, revoked, superseded, refreshOf, oldNonces, returned >>

\* refreshStore weakened: the token is returned and not stored.
refreshStore_NoWrite(p) ==
    /\ pc[p] = "rf_store"
    /\ Return(p, [op |-> "refresh", status |-> 200, error |-> "",
                  accessToken |-> loc[p].accessToken])
    /\ UNCHANGED << cfg, chain, http, now, users, nextId, redis, nonceCtr, hist >>

\* refresh's storeToken and its return.
refreshStore(p) ==
    /\ pc[p] = "rf_store"
    /\ LET publicAddress == loc[p].decoded.publicAddress IN
       /\ redis' = storeToken(redis, "access", publicAddress,
                              loc[p].accessToken, cfg.accessExpiresIn)
       /\ written' = [written EXCEPT ![publicAddress] = @ \cup {loc[p].accessToken}]
       /\ Return(p, [op |-> "refresh", status |-> 200, error |-> "",
                     accessToken |-> loc[p].accessToken])
    /\ UNCHANGED << cfg, chain, http, now, users, nextId, nonceCtr,
                    okDtos, revoked, superseded, refreshOf, oldNonces, returned >>

(* ------------------------------- signOut ------------------------------ *)

\* signOut weakened: the identity's nonce is rotated as well.
signOut_RotatesNonce(p, publicAddress) ==
    /\ Free(p)
    /\ redis' = RedisDelete(redis, { getTokenKey("access", publicAddress),
                                     getTokenKey("refresh", publicAddress) })
    /\ users' = IF publicAddress \in DOMAIN users
                THEN UpdateNonce(users, publicAddress, 0)
                ELSE users
    /\ revoked' = [revoked EXCEPT ![publicAddress] = @ \cup written[publicAddress]]
    /\ Return(p, [op |-> "signOut", status |-> 204, error |-> "",
                  address |-> publicAddress])
    /\ UNCHANGED << cfg, chain, http, now, nextId, nonceCtr,
                    okDtos, written, superseded, refreshOf, oldNonces, returned >>

\* signOut weakened: only the refresh key is deleted.
signOut_RefreshOnly(p, publicAddress) ==
    /\ Free(p)
    /\ redis' = RedisDelete(redis, { getTokenKey("refresh", publicAddress) })
    /\ revoked' = [revoked EXCEPT ![publicAddress] = @ \cup written[publicAddress]]
    /\ Return(p, [op |-> "signOut", status |-> 204, error |-> "",
                  address |-> publicAddress])
    /\ UNCHANGED << cfg, chain, http, now, users, nextId, nonceCtr,
                    okDtos, written, superseded, refreshOf, oldNonces, returned >>

\* signOut: one DEL of the two keys of the address.
signOut(p, publicAddress) ==
    /\ Free(p)
    /\ redis' = RedisDelete(redis, { getTokenKey("access", publicAddress),
                                     getTokenKey("refresh", publicAddress) })
    /\ revoked' = [revoked EXCEPT ![publicAddress] = @ \cup written[publicAddress]]
    /\ Return(p, [op |-> "signOut", status |-> 204, error |-> "",
                  address |-> publicAddress])
    /\ UNCHANGED << cfg, chain, http, now, users, nextId, nonceCtr,
                    okDtos, written, superseded, refreshOf, oldNonces, returned >>

(* -------------------------- JwtStrategy.validate ---------------------- *)

\* How the guard answers a header up to its store read: passport-jwt
\* verifies the bearer token with the access secret, then validate checks the
\* payload's id and publicAddress.
validateChecks(header) ==
    IF ~verifyAsync(header.token, "access", now)
    THEN Fail("validate", 401, "Unauthorized")
    ELSE IF header.token.payload.id = 0
    THEN Fail("validate", 401, "User not found")
    ELSE IF header.token.payload.publicAddress = ""
    THEN Fail("validate", 401, "Invalid token payload")
    ELSE Ok("validate")

\* The guard up to its store read.  A request that fails a check is answered
\* 401 and is no step.
validateVerify(p, header) ==
    /\ Free(p)
    /\ validateChecks(header).status = 200
    /\ Suspend(p, "v_get",
               [op |-> "validate", token |-> replaceBearer(header),
                payload |-> header.token.payload])
    /\ UNCHANGED << cfg, chain, http, now, users, nextId, redis, nonceCtr, hist >>

\* The guard's read of the access slot and the comparison.
validateGet(p) ==
    /\ pc[p] = "v_get"
    /\ IF ~SlotHolds(getTokenKey("access", loc[p].payload.publicAddress), loc[p].token)
       THEN Return(p, Fail("validate", 401,
                           "Token not found or expired in session store"))
       ELSE Suspend(p, "v_find", loc[p])
    /\ UNCHANGED << cfg, chain, http, now, users, nextId, redis, nonceCtr, hist >>

\* The response of a request that the guard has authorized: GET /user/profile
\* returns req.user.
Authorized(user) ==
    [op |-> "validate", status |-> 200, error |-> "", user |-> user]

\* The locals of a PUT /user/profile request as its handler starts.
UpdateLocals(l, user) ==
    [op |-> "update", user |-> user, username |-> l.username]

\* validateFind weakened: the identity is not looked up, the request's user
\* is the payload of the token.
validateFind_NoLookup(p) ==
    /\ pc[p] = "v_find"
    /\ IF "username" \in DOMAIN loc[p]
       THEN Suspend(p, "u_update", UpdateLocals(loc[p], loc[p].payload))
       ELSE Return(p, Authorized(loc[p].payload))
    /\ UNCHANGED << cfg, chain, http, now, users, nextId, redis, nonceCtr, hist >>

\* validateFind weakened: the request's user is the payload of the token.
validateFind_Snapshot(p) ==
    /\ pc[p] = "v_find"
    /\ LET found == { a \in DOMAIN users : users[a].id = loc[p].payload.id } IN
       IF found = {}
       THEN Return(p, Fail("validate", 401, "Unauthorized"))
       ELSE IF "username" \in DOMAIN loc[p]
       THEN Suspend(p, "u_update", UpdateLocals(loc[p], loc[p].payload))
       ELSE Return(p, Authorized(loc[p].payload))
    /\ UNCHANGED << cfg, chain, http, now, users, nextId, redis, nonceCtr, hist >>

\* The guard's findUnique({id}); passport rejects a request without a user,
\* and otherwise hands the record found to the route's handler as req.user.
validateFind(p) ==
    /\ pc[p] = "v_find"
    /\ LET found == { a \in DOMAIN users : users[a].id = loc[p].payload.id } IN
       IF found = {}
       THEN Return(p, Fail("validate", 401, "Unauthorized"))
       ELSE LET user == users[CHOOSE a \in found : TRUE] IN
            IF "username" \in DOMAIN loc[p]
            THEN Suspend(p, "u_update", UpdateLocals(loc[p], user))
            ELSE Return(p, Authorized(user))
    /\ UNCHANGED << cfg, chain, http, now, users, nextId, redis, nonceCtr, hist >>

(* ---------------------------- UserController -------------------------- *)

\* The usernames a client may send: one of three characters and one of two.
Usernames == { << "neo" >>, << "ab" >> }

\* The number of characters of a username, given as its pieces.
RECURSIVE length(_)
length(username) ==
    IF username = << >> THEN 0
    ELSE Len(Head(username)) + length(Tail(username))

\* UpdateUserDTO under the ValidationPipe: @IsString() @MinLength(3) username.
MinLength == 3
UpdateUserDTOValid(username) == length(username) >= MinLength

\* PUT /user/profile up to the guard's store read: the guard's checks on the
\* bearer token; the body waits for the handler.
updateVerify(p, header, username) ==
    /\ Free(p)
    /\ validateChecks(header).status = 200
    /\ Suspend(p, "v_get",
               [op |-> "validate", token |-> replaceBearer(header),
                payload |-> header.token.payload, username |-> username])
    /\ UNCHANGED << cfg, chain, http, now, users, nextId, redis, nonceCtr, hist >>

\* UserController.update after the guard: the ValidationPipe on the body,
\* then userService.update({where: {id}, data: body}) and its return.  The
\* update fails on the unique index of username.
update(p) ==
    /\ pc[p] = "u_update"
    /\ LET a == loc[p].user.publicAddress IN
       IF ~UpdateUserDTOValid(loc[p].username)
       THEN /\ Return(p, Fail("update", 400,
                              "username must be longer than or equal to 3 characters"))
            /\ UNCHANGED users
       ELSE IF \E b \in DOMAIN users \ {a} : users[b].username = loc[p].username
       THEN /\ Return(p, Fail("update", 500, "Internal server error"))
            /\ UNCHANGED users
       ELSE /\ users' = [users EXCEPT ![a].username = loc[p].username]
            /\ Return(p, [op |-> "update", status |-> 200, error |-> "",
                          user |-> users'[a]])
    /\ UNCHANGED << cfg, chain, http, now, nextId, redis, nonceCtr, hist >>

(* -------------------------------- clock ------------------------------- *)

\* A second passes; the session store evicts the entries whose TTL has run out.
Tick ==
    /\ now < MaxNow
    /\ now' = now + 1
    /\ redis' = [k \in { k \in DOMAIN redis :
                           redis[k].persist \/ redis[k].expireAt > now + 1 } |->
                    redis[k]]
    /\ last' = NoRes
    /\ UNCHANGED << cfg, chain, http, users, nextId, nonceCtr, pc, loc, hist >>

Next ==
    \/ nonceCtr < MaxNonce /\ \E p \in Proc, address \in AddrInput : getNonceFind(p, address)
    \/ \E p \in Proc : getNonceWrite(p)
    \/ nonceCtr < MaxNonce /\ \E p \in Proc, dto \in SignInDTOs : signInCheck(p, dto)
    \/ \E p \in Proc : signInUpdate(p)
    \/ \E p \in Proc : signInSign(p)
    \/ \E p \in Proc : signInStore(p)
    \/ \E p \in Proc, refreshToken \in TokenInputs : refreshVerify(p, refreshToken)
    \/ \E p \in Proc : refreshGet(p)
    \/ \E p \in Proc : refreshSign(p)
    \/ \E p \in Proc : refreshStore(p)
    \/ \E p \in Proc, publicAddress \in Addr : signOut(p, publicAddress)
    \/ \E p \in Proc, header \in Headers : validateVerify(p, header)
    \/ \E p \in Proc : validateGet(p)
    \/ \E p \in Proc : validateFind(p)
    \/ Tick

Spec == Init /\ [][Next]_vars

\* The requests one after the other: a request starts when none is in flight.
NextSeq ==
    \/ nonceCtr < MaxNonceSeq /\ \E address \in AddrInput : getNonceFind("p1", address)
    \/ getNonceWrite("p1")
    \/ nonceCtr < MaxNonceSeq /\ \E dto \in SignInDTOs : signInCheck("p1", dto)
    \/ signInUpdate("p1")
    \/ signInSign("p1")
    \/ signInStore("p1")
    \/ \E refreshToken \in TokenInputs : refreshVerify("p1", refreshToken)
    \/ refreshGet("p1")
    \/ refreshSign("p1")
    \/ refreshStore("p1")
    \/ \E publicAddress \in Addr : signOut("p1", publicAddress)
    \/ \E header \in Headers : validateVerify("p1", header)
    \/ validateGet("p1")
    \/ validateFind("p1")
    \/ Tick

SpecSeq == Init /\ [][NextSeq]_vars

\* The requests one after the other, with the profile routes.
NextUser ==
    \/ NextSeq
    \/ \E header \in Headers, username \in Usernames :
          updateVerify("p1", header, username)
    \/ update("p1")

SpecUser == Init /\ [][NextUser]_vars

\* UserService.delete({publicAddress}), run by an administrator while no
\* request that writes the identity is in flight: the record is removed; the
\* session store is not touched.
deleteUser(address) ==
    /\ address \in DOMAIN users
    /\ \A p \in Proc : pc[p] \in {"idle", "v_get", "v_find"}
    /\ users' = [a \in DOMAIN users \ {address} |-> users[a]]
    /\ UNCHANGED << cfg, chain, http, now, nextId, redis, nonceCtr, pc, loc, last, hist >>

\* The requests one after the other, with the profile routes and an
\* administrator who deletes identities.
NextAdmin ==
    \/ NextUser
    \/ \E address \in Addr : deleteUser(address)

SpecAdmin == Init /\ [][NextAdmin]_vars

\* The process before it has read its environment.
InitBoot ==
    /\ cfg = NoConfig
    /\ now = 0
    /\ users = << >>
    /\ nextId = 1
    /\ redis = << >>
    /\ nonceCtr = 0
    /\ pc = [p \in Proc |-> "idle"]
    /\ loc = [p \in Proc |-> NoLoc]
    /\ last = NoRes
    /\ okDtos = << >>
    /\ written = [a \in Addr |-> {}]
    /\ revoked = [a \in Addr |-> {}]
    /\ superseded = [a \in Addr |-> {}]
    /\ refreshOf = [a \in Addr |-> {}]
    /\ oldNonces = [a \in Addr |-> {}]
    /\ returned = [a \in Addr |-> << >>]
    /\ chain = ChainInit
    /\ http = [jar |-> NoCookies, mirrored |-> {}]

\* ConfigModule loads configuration.ts once, at start-up.
configuration(access, refresh) ==
    /\ cfg = NoConfig
    /\ cfg' = Configured(access, refresh)
    /\ UNCHANGED << chain, http, now, users, nextId, redis, nonceCtr, pc, loc, last, hist >>

\* Start-up under every environment.
NextConfig == \E access \in EnvValues, refresh \in EnvValues : configuration(access, refresh)

SpecConfig == InitBoot /\ [][NextConfig]_vars

\* Start-up with an access window of half a second (JWT_ACCESS_EXPIRES_IN =
\* '500', JWT_REFRESH_EXPIRES_IN = '30s'), then the requests one after the
\* other.
NextShort ==
    \/ configuration(<< "5", "0", "0" >>, << "3", "0", "s" >>)
    \/ cfg # NoConfig /\ NextSeq

SpecShort == InitBoot /\ [][NextShort]_vars

(* ----------------- AuthorizedUserProfileService: events ---------------- *)

\* The usernames UsernameUpdated events carry: a new one and the one B is
\* created with.
EventUsernames == { << "neo" >>, << "user-", "B" >> }

\* What the listener leaves behind: a line in the log, no response.
Logged(level, text) ==
    [op |-> "UsernameUpdated", status |-> 0, error |-> text, level |-> level]

\* The listener's first read, findUnique({username: newUsername}), as the
\* event UsernameUpdated(userAddress, newUsername) arrives.
eventCheck(p, userAddress, newUsername) ==
    /\ Free(p)
    /\ IF \E a \in DOMAIN users : users[a].username = newUsername
       THEN Return(p, Logged("error", "Username is already taken"))
       ELSE Suspend(p, "ev_find",
                    [op |-> "UsernameUpdated", userAddress |-> userAddress,
                     newUsername |-> newUsername])
    /\ UNCHANGED << cfg, chain, http, now, users, nextId, redis, nonceCtr, hist >>

\* The listener's second read, findUnique({publicAddress: userAddress}).
eventFind(p) ==
    /\ pc[p] = "ev_find"
    /\ IF loc[p].userAddress \notin DOMAIN users
       THEN Return(p, Logged("error", "User not found"))
       ELSE Suspend(p, "ev_update",
                    [op |-> "UsernameUpdated", userAddress |-> loc[p].userAddress,
                     newUsername |-> loc[p].newUsername,
                     user |-> users[loc[p].userAddress]])
    /\ UNCHANGED << cfg, chain, http, now, users, nextId, redis, nonceCtr, hist >>

\* eventUpdate weakened: the store has no unique index on username.
eventUpdate_NoIndex(p) ==
    /\ pc[p] = "ev_update"
    /\ LET found == { a \in DOMAIN users : users[a].id = loc[p].user.id } IN
       IF found = {}
       THEN /\ Return(p, Logged("error", "Error processing UsernameUpdated event"))
            /\ UNCHANGED users
       ELSE /\ users' = [a \in DOMAIN users |->
                           IF a \in found
                           THEN [users[a] EXCEPT !.username = loc[p].newUsername]
                           ELSE users[a]]
            /\ Return(p, Logged("log", "Username updated"))
    /\ UNCHANGED << cfg, chain, http, now, nextId, redis, nonceCtr, hist >>

\* The listener's update({where: {id: user.id}, data: {username}}) inside
\* its try: the store rejects an id that is gone and a username another
\* identity has, and the catch logs the error.
eventUpdate(p) ==
    /\ pc[p] = "ev_update"
    /\ LET found == { a \in DOMAIN users : users[a].id = loc[p].user.id } IN
       IF \/ found = {}
          \/ \E b \in DOMAIN users \ found : users[b].username = loc[p].newUsername
       THEN /\ Return(p, Logged("error", "Error processing UsernameUpdated event"))
            /\ UNCHANGED users
       ELSE /\ users' = [a \in DOMAIN users |->
                           IF a \in found
                           THEN [users[a] EXCEPT !.username = loc[p].newUsername]
                           ELSE users[a]]
            /\ Return(p, Logged("log", "Username updated"))
    /\ UNCHANGED << cfg, chain, http, now, nextId, redis, nonceCtr, hist >>

\* Identities are created by getNonce, one request at a time, while events
\* arrive and their listeners run side by side.
NextEvents ==
    \/ nonceCtr < MaxNonce /\ \E address \in Addr : getNonceFind("p1", address)
    \/ getNonceWrite("p1")
    \/ \E p \in Proc, userAddress \in Addr, newUsername \in EventUsernames :
          eventCheck(p, userAddress, newUsername)
    \/ \E p \in Proc : eventFind(p)
    \/ \E p \in Proc : eventUpdate(p)

SpecEvents == Init /\ [][NextEvents]_vars

\* The requests one after the other, with one refresh call that may overlap
\* them: it starts while another request is in flight and goes on at its own
\* pace.
NextOverlap ==
    \/ NextSeq
    \/ \E refreshToken \in TokenInputs : refreshVerify("p2", refreshToken)
    \/ refreshGet("p2")
    \/ refreshSign("p2")
    \/ refreshStore("p2")

SpecOverlap == Init /\ [][NextOverlap]_vars

\* The contract on its own: transactions from any account.
SpecContract == Init /\ [][NextContract]_vars

(* ----------------------- session store failures ----------------------- *)

\* What RedisService answers when the client rejects a command.
RedisUnavailable(op) == Fail(op, 503, "Redis service unavailable")

\* signIn's Promise.all of the two storeToken calls when at least one set
\* rejects: the sets that did not reject are applied, and signIn throws.
signInStoreFails(p) ==
    /\ pc[p] = "si_store"
    /\ \E done \in {{}, {"access"}, {"refresh"}} :
          LET address == loc[p].address
              afterAccess ==
                  IF "access" \in done
                  THEN storeToken(redis, "access", address,
                                  loc[p].accessToken, cfg.accessExpiresIn)
                  ELSE redis
          IN redis' = IF "refresh" \in done
                      THEN storeToken(afterAccess, "refresh", address,
                                      loc[p].refreshToken, cfg.refreshExpiresIn)
                      ELSE afterAccess
    /\ Return(p, RedisUnavailable("signIn"))
    /\ UNCHANGED << cfg, chain, http, now, users, nextId, nonceCtr, hist >>

\* A get or set of refresh or of the guard rejects: the request ends with
\* the error (refresh rethrows an HttpException) and nothing is written.
redisFails(p) ==
    /\ pc[p] \in {"rf_get", "rf_store", "v_get"}
    /\ Return(p, RedisUnavailable(loc[p].op))
    /\ UNCHANGED << cfg, chain, http, now, users, nextId, redis, nonceCtr, hist >>

\* signOut's DEL rejects: nothing is deleted.
signOutFails(p, publicAddress) ==
    /\ Free(p)
    /\ Return(p, RedisUnavailable("signOut"))
    /\ UNCHANGED << cfg, chain, http, now, users, nextId, redis, nonceCtr, hist >>

\* The requests one after the other, with session store commands that may
\* reject.
NextFault ==
    \/ NextSeq
    \/ signInStoreFails("p1")
    \/ redisFails("p1")
    \/ \E publicAddress \in Addr : signOutFails("p1", publicAddress)

SpecFault == Init /\ [][NextFault]_vars

(* ---------------------------- AuthController -------------------------- *)

\* What a request may carry as its accessToken cookie: nothing, or any token.
AccessCookies == {{}} \cup { {t} : t \in TokenInputs }

\* POST /auth/sign-in from the service's store writes on: the session is
\* stored and the controller goes on to the cookies and the mirror call.
postSignInStore(p) ==
    /\ pc[p] = "si_store"
    /\ LET address == loc[p].address
           dto == loc[p].dto
       IN /\ redis' = storeToken(
                        storeToken(redis, "access", address,
                                   loc[p].accessToken, cfg.accessExpiresIn),
                        "refresh", address, loc[p].refreshToken, cfg.refreshExpiresIn)
          /\ Suspend(p, "si_mirror",
                     [op |-> "postSignIn", address |-> address,
                      accessToken |-> loc[p].accessToken,
                      refreshToken |-> loc[p].refreshToken])
          /\ okDtos' = [d \in DOMAIN okDtos \cup {dto} |->
                          IF d \in DOMAIN okDtos
                          THEN (IF d = dto THEN okDtos[d] + 1 ELSE okDtos[d])
                          ELSE 1]
          /\ written' = [written EXCEPT ![address] = @ \cup {loc[p].accessToken}]
          /\ superseded' = [superseded EXCEPT ![address] = @ \cup refreshOf[address]]
          /\ refreshOf' = [refreshOf EXCEPT ![address] = @ \cup {loc[p].refreshToken}]
    /\ UNCHANGED << cfg, chain, http, now, users, nextId, nonceCtr,
                    revoked, oldNonces, returned >>

\* A call of addJwtToContract(address, jwt) and whether it resolved.
Mirror(address, jwt, resolves) ==
    [address |-> address, jwt |-> jwt, resolved |-> resolves]

\* postSignInMirror weakened: a rejected mirror call is only logged.
postSignInMirror_FireAndForget(p) ==
    /\ pc[p] = "si_mirror"
    /\ \E resolves \in BOOLEAN :
          /\ http' = [jar |-> [accessToken |-> {loc[p].accessToken},
                               refreshToken |-> {loc[p].refreshToken}],
                      mirrored |-> http.mirrored \cup
                                     {Mirror(loc[p].address, loc[p].accessToken,
                                             resolves)}]
          /\ Return(p, [op |-> "postSignIn", status |-> 201, error |-> "",
                        body |-> {[address |-> loc[p].address,
                                   accessToken |-> loc[p].accessToken]}])
    /\ UNCHANGED << cfg, chain, now, users, nextId, redis, nonceCtr, hist >>

\* POST /auth/sign-in after the service returned: res.cookie twice, then
\* addJwtToContract(address, accessToken), which resolves or rejects; a
\* rejection is rethrown as 500 on the response that already has the cookies.
postSignInMirror(p) ==
    /\ pc[p] = "si_mirror"
    /\ \E resolves \in BOOLEAN :
          /\ http' = [jar |-> [accessToken |-> {loc[p].accessToken},
                               refreshToken |-> {loc[p].refreshToken}],
                      mirrored |-> http.mirrored \cup
                                     {Mirror(loc[p].address, loc[p].accessToken,
                                             resolves)}]
          /\ Return(p, IF resolves
                       THEN [op |-> "postSignIn", status |-> 201, error |-> "",
                             body |-> {[address |-> loc[p].address,
                                        accessToken |-> loc[p].accessToken]}]
                       ELSE [op |-> "postSignIn", status |-> 500,
                             error |-> "Failed to add JWT to contract",
                             body |-> {}])
    /\ UNCHANGED << cfg, chain, now, users, nextId, redis, nonceCtr, hist >>

\* POST /auth/refresh from the service's store write on: the access token is
\* stored, set as the accessToken cookie and sent in the body.
postRefreshStore(p) ==
    /\ pc[p] = "rf_store"
    /\ LET publicAddress == loc[p].decoded.publicAddress IN
       /\ redis' = storeToken(redis, "access", publicAddress,
                              loc[p].accessToken, cfg.accessExpiresIn)
       /\ written' = [written EXCEPT ![publicAddress] = @ \cup {loc[p].accessToken}]
       /\ http' = [http EXCEPT !.jar.accessToken = {loc[p].accessToken}]
       /\ Return(p, [op |-> "postRefresh", status |-> 201, error |-> "",
                     body |-> {[accessToken |-> loc[p].accessToken]}])
    /\ UNCHANGED << cfg, chain, now, users, nextId, nonceCtr,
                    okDtos, revoked, superseded, refreshOf, oldNonces, returned >>

\* The address AuthController.signOut signs out for an accessToken cookie:
\* that of a cookie that verifies with the access secret and decodes to a
\* publicAddress; none for a missing, expired or invalid cookie.
SignedOut(cookie) ==
    { t.payload.publicAddress :
        t \in { t \in cookie : /\ verifyAsync(t, "access", now)
                               /\ t.payload.publicAddress # "" } }

\* The response of AuthController.signOut.
NoContent(cookie) ==
    [op |-> "postSignOut", status |-> 204, error |-> "", accessToken |-> cookie]

\* POST /auth/sign-out: AuthService.signOut for the address of a verified
\* accessToken cookie, then clearCookie twice and 204.
postSignOut(p, cookie) ==
    /\ Free(p)
    /\ LET addresses == SignedOut(cookie)
           keys == UNION { { getTokenKey("access", a), getTokenKey("refresh", a) } :
                           a \in addresses }
       IN /\ redis' = RedisDelete(redis, keys)
          /\ revoked' = [a \in Addr |->
                           IF a \in addresses
                           THEN revoked[a] \cup written[a] ELSE revoked[a]]
    /\ http' = [http EXCEPT !.jar = NoCookies]
    /\ Return(p, NoContent(cookie))
    /\ UNCHANGED << cfg, chain, now, users, nextId, nonceCtr,
                    okDtos, written, superseded, refreshOf, oldNonces, returned >>

\* POST /auth/sign-out when the DEL of AuthService.signOut rejects: the inner
\* catch logs the error, the cookies are cleared and the answer is 204.
postSignOutFails(p, cookie) ==
    /\ Free(p)
    /\ SignedOut(cookie) # {}
    /\ http' = [http EXCEPT !.jar = NoCookies]
    /\ Return(p, NoContent(cookie))
    /\ UNCHANGED << cfg, chain, now, users, nextId, redis, nonceCtr, hist >>

\* The endpoints of AuthController one request after the other, with session
\* store commands that may reject.
NextHttp ==
    \/ nonceCtr < MaxNonceSeq /\ \E address \in AddrInput : getNonceFind("p1", address)
    \/ getNonceWrite("p1")
    \/ nonceCtr < MaxNonceSeq /\ \E dto \in SignInDTOs : signInCheck("p1", dto)
    \/ signInUpdate("p1")
    \/ signInSign("p1")
    \/ postSignInStore("p1")
    \/ signInStoreFails("p1")
    \/ postSignInMirror("p1")
    \/ \E refreshToken \in TokenInputs : refreshVerify("p1", refreshToken)
    \/ refreshGet("p1")
    \/ refreshSign("p1")
    \/ postRefreshStore("p1")
    \/ \E cookie \in AccessCookies : postSignOut("p1", cookie)
    \/ \E cookie \in AccessCookies : postSignOutFails("p1", cookie)
    \/ \E header \in Headers : validateVerify("p1", header)
    \/ validateGet("p1")
    \/ validateFind("p1")
    \/ redisFails("p1")
    \/ Tick

SpecHttp == Init /\ [][NextHttp]_vars

\* The refreshToken cookie of a request: none, or one token.
RefreshCookies == {{}} \cup { {t} : t \in TokenInputs }

\* POST /auth/refresh for a request that ends before the store read: without
\* a refreshToken cookie the controller throws 400 and AuthService.refresh is
\* not called; with a cookie that fails verifyAsync or whose payload has no
\* publicAddress, refresh throws 401.  Nothing is written.
refreshRejects(p, cookie) ==
    /\ Free(p)
    /\ \/ /\ cookie = {}
          /\ Return(p, [op |-> "refresh", status |-> 400,
                        error |-> "Refresh token is not defined!",
                        refreshToken |-> cookie])
       \/ \E refreshToken \in cookie :
             /\ refreshChecks(refreshToken).status # 200
             /\ Return(p, [op |-> "refresh",
                           status |-> refreshChecks(refreshToken).status,
                           error |-> refreshChecks(refreshToken).error,
                           refreshToken |-> cookie])
    /\ UNCHANGED << cfg, chain, http, now, users, nextId, redis, nonceCtr, hist >>

\* The requests one after the other, with refresh requests that are rejected
\* and session store reads and writes that may reject.
NextRefresh ==
    \/ NextSeq
    \/ \E cookie \in RefreshCookies : refreshRejects("p1", cookie)
    \/ redisFails("p1")

SpecRefresh == Init /\ [][NextRefresh]_vars

(* ======================= properties of the claims ====================== *)

\* The guard, run to its end in the present state on 'Bearer ' + token,
\* authorizes the request.
GuardAccepts(token) ==
    LET header == [scheme |-> "Bearer ", token |-> token] IN
    /\ validateChecks(header).status = 200
    /\ SlotHolds(getTokenKey("access", token.payload.publicAddress),
                 replaceBearer(header))
    /\ \E a \in DOMAIN users : users[a].id = token.payload.id

\* refresh, run in the present state on the token, goes on to issue an
\* access token.
RefreshAccepts(token) ==
    /\ refreshChecks(token).status = 200
    /\ SlotHolds(getTokenKey("refresh", token.payload.publicAddress),
                 [bare |-> TRUE, token |-> token])

\* The slot `type`:`address` holds exactly the string `token`.
SlotIs(type, address, token) ==
    /\ << type, address >> \in DOMAIN redis
    /\ redis[<< type, address >>].val = token

\* The token carries a signature by `secret` and has not expired.
Verifies(token, secret) == token.secret = secret /\ token.exp > now

\* C1: the access guard lets a request past its store read only if the bearer
\* token verifies against the access secret and is unexpired when verified,
\* its payload carries id and publicAddress, and the slot
\* access:{publicAddress} holds exactly the presented string when read; with
\* the slot absent or holding another string the request ends 401 at that
\* read, without the identity lookup; only a request that passed the read is
\* authorized.
C1_GuardStep(p) ==
    /\ (pc[p] = "idle" /\ pc'[p] = "v_get") =>
          /\ Verifies(loc'[p].token.token, "access")
          /\ loc'[p].payload.id # 0
          /\ loc'[p].payload.publicAddress \in Addr
    /\ (pc[p] = "v_get" /\ pc'[p] = "v_find") =>
          /\ loc[p].token.bare
          /\ SlotIs("access", loc[p].payload.publicAddress, loc[p].token.token)
    /\ (pc[p] = "v_get" /\ pc'[p] # "v_get" /\
        ~(loc[p].token.bare /\
          SlotIs("access", loc[p].payload.publicAddress, loc[p].token.token))) =>
          /\ pc'[p] = "idle"
          /\ last' = Fail("validate", 401, "Token not found or expired in session store")
          /\ users' = users
    /\ (pc[p] # "idle" /\ pc'[p] = "idle" /\ last'.op = "validate" /\ last'.status = 200) =>
          pc[p] = "v_find"

C1_AccessGuard == [][\A p \in Proc : C1_GuardStep(p)]_vars

\* C1 witness: one guard request has just been refused at its store read and
\* another one has passed that read.
C1_Witness ==
    /\ last = Fail("validate", 401, "Token not found or expired in session store")
    /\ \E p \in Proc : pc[p] = "v_find"

\* C2: sequentially, no access token that was written to the access slot of
\* an address before a signOut of that address is accepted by the guard
\* afterwards; and the access token a signIn has just returned is accepted.
C2_RevokedBySignOut ==
    /\ \A a \in Addr : \A t \in revoked[a] : ~GuardAccepts(t)
    /\ (last.op = "signIn" /\ last.status = 200) => GuardAccepts(last.accessToken)

\* C2 witness: signOut has just run for an address with two access tokens (one
\* from signIn, one from refresh) written before it, both unexpired.
C2_Witness ==
    /\ last.op = "signOut"
    /\ Cardinality({ t \in revoked[last.address] : Verifies(t, "access") }) >= 2

\* C3: refresh goes past its store read only if the token verifies against
\* the refresh secret and the slot refresh:{publicAddress} holds exactly the
\* token when read; with the slot absent or holding another string it ends
\* 401 'Refresh token not found or expired'; only a request that passed the
\* read returns an access token.
C3_RefreshStep(p) ==
    /\ (pc[p] = "idle" /\ pc'[p] = "rf_get") =>
          Verifies(loc'[p].refreshToken, "refresh")
    /\ (pc[p] = "rf_get" /\ pc'[p] = "rf_sign") =>
          SlotIs("refresh", loc[p].decoded.publicAddress, loc[p].refreshToken)
    /\ (pc[p] = "rf_get" /\ pc'[p] # "rf_get" /\
        ~SlotIs("refresh", loc[p].decoded.publicAddress, loc[p].refreshToken)) =>
          /\ pc'[p] = "idle"
          /\ last' = Fail("refresh", 401, "Refresh token not found or expired")
          /\ redis' = redis
    /\ (pc[p] # "idle" /\ pc'[p] = "idle" /\ last'.op = "refresh" /\ last'.status = 200) =>
          /\ pc[p] = "rf_store"
          /\ Verifies(loc[p].refreshToken, "refresh")

C3_RefreshRevocation == [][\A p \in Proc : C3_RefreshStep(p)]_vars

\* C3 witness: a refresh has just been refused at its store read because the
\* slot is absent, while the token it presented is unexpired.
C3_Witness ==
    /\ last = Fail("refresh", 401, "Refresh token not found or expired")
    /\ \E a \in Addr : \E t \in refreshOf[a] :
          /\ Verifies(t, "refresh")
          /\ << "refresh", a >> \notin DOMAIN redis

\* The guard accepts at most one of the tokens clients can present for the
\* address, and so does refresh.
AtMostOneAccepted(a) ==
    /\ Cardinality({ t \in TokenInputs :
                       t.payload.publicAddress = a /\ GuardAccepts(t) }) <= 1
    /\ Cardinality({ t \in TokenInputs :
                       t.payload.publicAddress = a /\ RefreshAccepts(t) }) <= 1

\* The step is the store write of a signIn or of a refresh in slot p.
WritesSlots(p) ==
    /\ pc[p] \in {"si_store", "rf_store"}
    /\ pc'[p] = "idle"
    /\ last'.status = 200

\* The address whose slots the request suspended in slot p writes.
WrittenAddress(p) ==
    IF pc[p] = "si_store" THEN loc[p].address ELSE loc[p].decoded.publicAddress

\* The token that the write of slot p replaces in the slot of `type`, if the
\* write is to that slot and the slot holds one.
Replaces(p, type, t) ==
    /\ WritesSlots(p)
    /\ type = "refresh" => pc[p] = "si_store"
    /\ SlotIs(type, WrittenAddress(p), t)

\* The token that the write of slot p leaves in the slot of `type`.
Written(p, type) == redis'[getTokenKey(type, WrittenAddress(p))].val

\* C4 (as amended): in every state the guard accepts at most one access token
\* per address and refresh at most one refresh token; a write of a token to a
\* slot makes the token it replaces stop being accepted unless the new token is
\* the same string.
C4_Step(p) ==
    /\ \A t \in TokenInputs :
          (Replaces(p, "access", t) /\ Written(p, "access") # t) => ~GuardAccepts(t)'
    /\ \A t \in TokenInputs :
          (Replaces(p, "refresh", t) /\ Written(p, "refresh") # t) => ~RefreshAccepts(t)'

C4_SingleToken ==
    /\ [](\A a \in Addr : AtMostOneAccepted(a))
    /\ [][\A p \in Proc : C4_Step(p)]_vars

\* C4 witness: a signIn has just replaced the tokens of an earlier signIn in
\* both slots; the earlier tokens are unexpired.
C4_Witness ==
    /\ last.op = "signIn" /\ last.status = 200
    /\ \E t \in written[last.address] : t # last.accessToken /\ Verifies(t, "access")
    /\ \E t \in refreshOf[last.address] : t # last.refreshToken /\ Verifies(t, "refresh")

\* C4 as stated: a write of a token to a slot makes the token that was stored
\* there before stop being accepted.
C4_Original ==
    [][\A p \in Proc :
          /\ \A t \in TokenInputs : Replaces(p, "access", t) => ~GuardAccepts(t)'
          /\ \A t \in TokenInputs : Replaces(p, "refresh", t) => ~RefreshAccepts(t)'
      ]_vars

\* C5: sequentially, a refresh token returned by a signIn for an address is
\* rejected by refresh once a later signIn for the address has returned.
C5_SupersededRefresh ==
    \A a \in Addr : \A t \in superseded[a] : ~RefreshAccepts(t)

\* C5 witness: a second signIn for the address has just returned and the
\* first one's refresh token still verifies.
C5_Witness ==
    /\ last.op = "signIn" /\ last.status = 200
    /\ \E t \in superseded[last.address] : Verifies(t, "refresh")

\* C6: sequentially, a DTO signs in at most once: after the call that
\* returned tokens for it, a call with the same DTO is answered 401
\* 'Invalid nonce'.
C6_NonceSingleUse ==
    \A dto \in DOMAIN okDtos :
        /\ okDtos[dto] = 1
        /\ signInChecks(dto) = Fail("signIn", 401, "Invalid nonce")

\* C6 witness: a signIn has returned tokens for a DTO.
C6_Witness ==
    /\ last.op = "signIn" /\ last.status = 200
    /\ DOMAIN okDtos # {}

\* C7: under every interleaving, at most one signIn call returns tokens for
\* one DTO.
C7_NoReplay ==
    \A dto \in DOMAIN okDtos : okDtos[dto] <= 1

\* The signature of the DTO is the signature of its message by the key that
\* controls the message's address.
ValidSignature(dto) ==
    /\ dto.signature.wellFormed
    /\ dto.signature.signs = "this"
    /\ KeyAddress(dto.signature.key) = dto.message.address

\* A signIn request that is past its checks carries a valid signature and the
\* nonce its identity lookup read.
C8_PastChecks(p) ==
    /\ pc[p] \in {"si_update", "si_sign", "si_store"} => ValidSignature(loc[p].dto)
    /\ pc[p] \in {"si_update", "si_sign"} =>
          /\ loc[p].dto.message.nonce = loc[p].user.nonce
          /\ loc[p].dto.nonce = loc[p].user.nonce

\* C8 (as amended): signIn goes past its checks, and returns tokens, only for
\* a DTO whose signature is valid and whose message carries the nonce stored
\* for the address when the identity is looked up; a parsed message with any
\* other signature is answered 401 when the address has an identity and 400
\* 'User not found' when it has none.
C8_SignInOnlyVerified ==
    /\ [](/\ \A p \in Proc : C8_PastChecks(p)
          /\ \A dto \in DOMAIN okDtos : ValidSignature(dto)
          /\ \A dto \in SignInDTOs :
                (SiweParses(dto.message) /\ ~ValidSignature(dto)) =>
                    IF dto.message.address \in DOMAIN users
                    THEN signInChecks(dto).status = 401
                    ELSE signInChecks(dto) = Fail("signIn", 400, "User not found"))
    /\ [][\A p \in Proc :
            (pc[p] = "idle" /\ pc'[p] = "si_update") =>
                loc'[p].dto.message.nonce = users[loc'[p].address].nonce]_vars

\* C8 witness: a DTO for an address with an identity carries the stored nonce
\* in both places and a signature by another key, and is answered 401.
C8_Witness ==
    \E dto \in SignInDTOs :
        /\ dto.message.address \in DOMAIN users
        /\ dto.nonce = users[dto.message.address].nonce
        /\ dto.message.nonce = dto.nonce
        /\ dto.signature.wellFormed /\ dto.signature.signs = "this"
        /\ KeyAddress(dto.signature.key) # dto.message.address
        /\ signInChecks(dto) = Fail("signIn", 401, "SIWE verification failed")

\* C8 as stated: a parsed message with a signature that is not valid is
\* always answered 401.
C8_Original ==
    \A dto \in SignInDTOs :
        (SiweParses(dto.message) /\ ~ValidSignature(dto)) =>
            signInChecks(dto).status = 401

\* C9: a signIn call whose DTO carries a nonce that was stored for the
\* address and has since been replaced (by getNonce or by a sign-in) is
\* answered 401 'Invalid nonce'; the nonce a call is let past the checks with
\* is the one stored when the identity is looked up.
C9_OnlyLatestNonce ==
    /\ [](\A dto \in SignInDTOs :
             (SiweParses(dto.message) /\ dto.nonce \in oldNonces[dto.message.address])
                => signInChecks(dto) = Fail("signIn", 401, "Invalid nonce"))
    /\ [][\A p \in Proc :
            (pc[p] = "idle" /\ pc'[p] = "si_update") =>
                loc'[p].dto.nonce = users[loc'[p].address].nonce]_vars

\* C9 witness: getNonce has just returned a nonce for an address for which it
\* had returned another one before, which no sign-in has used.
C9_Witness ==
    /\ last.op = "getNonce" /\ last.status = 200
    /\ \E i \in 1..Len(returned[last.address]) :
          /\ returned[last.address][i] \in oldNonces[last.address]
          /\ \A dto \in DOMAIN okDtos : dto.nonce # returned[last.address][i]

C11_ConcurrentGetNonce ==
    last.op = "getNonce" =>
        /\ last.status = 200
        /\ Cardinality({ a \in DOMAIN users : users[a].publicAddress = last.address }) = 1

\* The step is the store write and return of the refresh in slot p.
RefreshReturns(p) ==
    /\ pc[p] = "rf_store"
    /\ pc'[p] = "idle"

\* C12 (as amended): the access token a successful refresh returns passes the
\* guard when the call returns, and is the same string as an access token
\* written for the address before exactly when that token carries the same
\* payload and was signed in the same clock second.
C12_Step(p) ==
    (RefreshReturns(p) /\ last'.status = 200) =>
        \E new \in {loc[p].accessToken} :
            /\ last'.accessToken = new
            /\ GuardAccepts(new)'
            /\ \A t \in written[new.payload.publicAddress] :
                  (t = new) <=> (t.payload = new.payload /\ t.iat = new.iat)

C12_RefreshedToken == [][\A p \in Proc : C12_Step(p)]_vars

\* C12 witness: a refresh has returned, in a later clock second, an access
\* token for the payload of an access token written before.
C12_Witness ==
    /\ last.op = "refresh" /\ last.status = 200
    /\ GuardAccepts(last.accessToken)
    /\ \E t \in written[last.accessToken.payload.publicAddress] :
          /\ t.payload = last.accessToken.payload
          /\ t.iat < last.accessToken.iat

\* C12 as stated: the access token a successful refresh returns differs from
\* the access token stored for the address before the call.
C12_Original ==
    [][\A p \in Proc :
          (RefreshReturns(p) /\ last'.status = 200) =>
              ~SlotIs("access", loc[p].decoded.publicAddress, loc[p].accessToken)
      ]_vars

\* The answer C13 expects for a DTO: the error of the first check, in the
\* order parse, identity exists, nonce, signature, that the DTO fails.
FirstFailure(dto) ==
    LET a == dto.message.address IN
    IF ~dto.message.parses THEN << 400, "Invalid SIWE message" >>
    ELSE IF ~(a \in Addr) THEN << 400, "Address is not valid!" >>
    ELSE IF a \notin DOMAIN users THEN << 400, "User not found" >>
    ELSE IF dto.nonce # users[a].nonce THEN << 401, "Invalid nonce" >>
    ELSE IF ~(ValidSignature(dto) /\ dto.message.nonce = users[a].nonce)
    THEN << 401, "SIWE verification failed" >>
    ELSE << 200, "" >>

\* C13: signIn answers every DTO with the error of the first failing check in
\* the order parse (400), address (400), identity exists (400), nonce (401),
\* signature (401); a DTO with a wrong nonce and a bad signature is answered
\* 'Invalid nonce'; a call that fails a check takes no further step: only a
\* call that passes them all goes on, and its first step writes nothing.
C13_CheckOrder ==
    /\ [](\A dto \in SignInDTOs :
             << signInChecks(dto).status, signInChecks(dto).error >> = FirstFailure(dto))
    /\ [][\A p \in Proc :
            (pc[p] = "idle" /\ pc'[p] = "si_update") =>
                /\ FirstFailure(loc'[p].dto) = << 200, "" >>
                /\ UNCHANGED << users, redis >>]_vars

\* C13 witness: a DTO for an address with an identity carries a nonce other
\* than the stored one and a signature that is not valid, and is answered
\* 'Invalid nonce'.
C13_Witness ==
    \E dto \in SignInDTOs :
        /\ dto.message.parses
        /\ dto.message.address \in DOMAIN users
        /\ dto.nonce # users[dto.message.address].nonce
        /\ ~ValidSignature(dto)
        /\ signInChecks(dto) = Fail("signIn", 401, "Invalid nonce")

\* The step is the end of the store writes of the signIn in slot p with an
\* error.
SignInStoreError(p) ==
    /\ pc[p] = "si_store"
    /\ pc'[p] = "idle"
    /\ last'.status # 200

\* C14: a signIn whose store writes do not both succeed returns an error and
\* leaves neither of the tokens it signed in a slot.
C14_NoOrphan ==
    [][\A p \in Proc :
          SignInStoreError(p) =>
              /\ getTokenKey("access", loc[p].address) \in DOMAIN redis' =>
                    redis'[getTokenKey("access", loc[p].address)].val
                        # loc[p].accessToken
              /\ getTokenKey("refresh", loc[p].address) \in DOMAIN redis' =>
                    redis'[getTokenKey("refresh", loc[p].address)].val
                        # loc[p].refreshToken
      ]_vars

\* The two session store keys of an address.
KeysOf(address) ==
    { getTokenKey("access", address), getTokenKey("refresh", address) }

\* The step is a signOut that returns.
SignOutReturns == last'.op = "signOut" /\ last'.status = 204

\* C15: signOut(A) is accepted whether or not A has entries; it leaves the
\* store without access:A and refresh:A and with every other entry as it
\* was, so a signOut of an address without entries changes nothing.
C15_SignOut ==
    /\ [](\A a \in Addr : pc["p1"] = "idle" => ENABLED signOut("p1", a))
    /\ [][SignOutReturns =>
            /\ DOMAIN redis' = DOMAIN redis \ KeysOf(last'.address)
            /\ \A k \in DOMAIN redis' : redis'[k] = redis[k]
            /\ (DOMAIN redis \cap KeysOf(last'.address) = {}) => redis' = redis
         ]_vars

\* C15 witness: a signOut has returned for an address that had no entry left
\* after an earlier signOut, while the other address has both its entries.
C15_Witness ==
    /\ last.op = "signOut" /\ last.status = 204
    /\ revoked[last.address] # {}
    /\ \A t \in written[last.address] : t \in revoked[last.address]
    /\ written[last.address] # {}
    /\ \E b \in Addr \ {last.address} : KeysOf(b) \subseteq DOMAIN redis

\* C16: a signOut step leaves the identity store as it was: the same
\* records with the same fields, the nonce of the signed-out address included.
C16_SignOutFrame ==
    [][SignOutReturns =>
          /\ users' = users
          /\ nextId' = nextId
          /\ last'.address \in DOMAIN users =>
                users'[last'.address].nonce = users[last'.address].nonce
      ]_vars

\* C16 witness: a signOut has returned for an address that has an identity
\* and had a session.
C16_Witness ==
    /\ last.op = "signOut" /\ last.status = 204
    /\ last.address \in DOMAIN users
    /\ revoked[last.address] # {}
    /\ users[last.address].nonce > 0

\* The access token that signIn returned together with the refresh token.
AccessOf(refreshToken) ==
    signAsync(refreshToken.payload, "access", cfg.accessExpiresIn, refreshToken.iat)

\* The refresh token is the one of the latest signIn for the address, no
\* signOut of the address has followed that signIn, and the TTL of its slot
\* has not run out.
SessionLive(a, refreshToken) ==
    /\ refreshToken \in refreshOf[a] \ superseded[a]
    /\ AccessOf(refreshToken) \notin revoked[a]
    /\ now < refreshToken.iat + (cfg.refreshExpiresIn \div 1000)

\* C17: a refresh that returns writes the access slot only: every other entry
\* of the session store keeps its value and its expiry, the identity store is
\* unchanged, and the response carries an access token and no refresh token;
\* sequentially, the refresh token of a session is accepted by refresh, however
\* many refreshes it has served, until a signOut, a later signIn or the end of
\* its TTL.
C17_NoRotation ==
    /\ [](\A a \in Addr : \A t \in refreshOf[a] :
             SessionLive(a, t) => RefreshAccepts(t))
    /\ [][\A p \in Proc :
            (RefreshReturns(p) /\ last'.status = 200) =>
                /\ DOMAIN redis' =
                      DOMAIN redis \cup {getTokenKey("access", loc[p].decoded.publicAddress)}
                /\ \A k \in DOMAIN redis :
                      k # getTokenKey("access", loc[p].decoded.publicAddress)
                          => redis'[k] = redis[k]
                /\ users' = users
                /\ DOMAIN last' = {"op", "status", "error", "accessToken"}
         ]_vars

\* C17 witness: a refresh has returned and the refresh token it was called
\* with is in its slot and accepted.
C17_Witness ==
    /\ last.op = "refresh" /\ last.status = 200
    /\ \E t \in refreshOf[last.accessToken.payload.publicAddress] :
          /\ t.payload = last.accessToken.payload
          /\ SlotIs("refresh", t.payload.publicAddress, t)
          /\ RefreshAccepts(t)

\* The entry that the write of slot p leaves in the slot of `type`.
WrittenEntry(p, type) == redis'[getTokenKey(type, WrittenAddress(p))]

\* The entry expires, and after as many seconds from the write as lie
\* between the iat and the exp of the token it holds.
TtlIsWindow(entry) ==
    /\ ~entry.persist
    /\ entry.expireAt - now = entry.val.exp - entry.val.iat

\* C18: every write of a token by signIn or refresh gives the slot a TTL in
\* seconds equal to the token's own expiration window, exp - iat.
C18_TtlEqualsWindow ==
    [][\A p \in Proc :
          WritesSlots(p) =>
              /\ TtlIsWindow(WrittenEntry(p, "access"))
              /\ pc[p] = "si_store" => TtlIsWindow(WrittenEntry(p, "refresh"))
      ]_vars

\* C19: the user the guard hands to the route is the record the identity
\* store holds under the payload's id when the guard looks it up, whatever
\* the payload says; a username update leaves every accepted token accepted.
C19_CurrentIdentity ==
    [][\A p \in Proc :
          /\ (pc[p] = "v_find" /\ pc'[p] = "idle" /\ last'.status = 200) =>
                /\ last'.user.id = loc[p].payload.id
                /\ last'.user = users[last'.user.publicAddress]
          /\ (pc[p] = "u_update" /\ last'.status = 200) =>
                /\ last'.user.username = loc[p].username
                /\ \A t \in TokenInputs : GuardAccepts(t) => GuardAccepts(t)'
      ]_vars

\* C19 witness: the guard has authorized a request and handed it the updated
\* username, and the token stored for the address still carries the old one.
C19_Witness ==
    /\ last.op = "validate" /\ last.status = 200
    /\ last.user.username \in Usernames
    /\ \E t \in written[last.user.publicAddress] :
          /\ GuardAccepts(t)
          /\ t.payload.id = last.user.id
          /\ t.payload.username # last.user.username

\* The signIn calls that have returned tokens signed over the payload.
CallsFor(payload) ==
    { dto \in DOMAIN okDtos :
        dto.message.address = payload.publicAddress /\ dto.nonce = payload.nonce }

\* C20: when a signIn has returned, under every interleaving, the two slots
\* of its address hold its two tokens, and the tokens of every other signIn
\* call for the address are rejected by the guard and by refresh.
C20_LastWriteWins ==
    (last.op = "signIn" /\ last.status = 200) =>
        /\ SlotIs("access", last.address, last.accessToken)
        /\ SlotIs("refresh", last.address, last.refreshToken)
        /\ \A t \in written[last.address] \ {last.accessToken} : ~GuardAccepts(t)
        /\ \A t \in refreshOf[last.address] \ {last.refreshToken} : ~RefreshAccepts(t)
        /\ \A dto \in CallsFor(last.refreshToken.payload) : okDtos[dto] = 1

\* The request in slot p takes the step.
Moves(p) == pc'[p] # pc[p] \/ loc'[p] # loc[p]

\* C21: a signIn call that has passed the nonce comparison and then the
\* verification rotates the nonce, then issues both tokens, then writes to
\* the session store: the step that rotates the nonce is taken by a call
\* that has passed both checks and writes nothing to the session store, the
\* step that issues the tokens issues both and writes nothing, and only the
\* step after it writes to the session store.
C21_Step(p) ==
    /\ (pc[p] = "idle" /\ pc'[p] = "si_update") =>
          /\ signInChecks(loc'[p].dto).status = 200
          /\ users' = users /\ redis' = redis
    /\ (pc[p] = "si_update" /\ Moves(p)) =>
          /\ pc'[p] = "si_sign"
          /\ ValidSignature(loc[p].dto)
          /\ loc[p].dto.nonce = loc[p].user.nonce
          /\ users'[loc[p].address].nonce = loc[p].nextNonce
          /\ redis' = redis
    /\ (pc[p] = "si_sign" /\ Moves(p)) =>
          /\ pc'[p] = "si_store"
          /\ loc'[p].accessToken.payload = loc[p].user
          /\ loc'[p].refreshToken.payload = loc[p].user
          /\ users' = users /\ redis' = redis
    /\ (pc[p] = "si_store" /\ Moves(p)) =>
          /\ pc'[p] = "idle"
          /\ users' = users

C21_SignInOrder == [][\A p \in Proc : C21_Step(p)]_vars

\* C21 witness: a signIn call has rotated the nonce and issued both tokens and
\* has not written them yet.
C21_Witness ==
    \E p \in Proc :
        /\ pc[p] = "si_store"
        /\ users[loc[p].address].nonce # loc[p].dto.nonce
        /\ ~SlotIs("access", loc[p].address, loc[p].accessToken)
        /\ ~SlotIs("refresh", loc[p].address, loc[p].refreshToken)

(* --------------------- claims about the contract ---------------------- *)

\* The step is a transaction fn sent to the contract.
Sends(fn) == chain' # chain /\ chain'.tx.fn = fn

\* C27: jwtTokens changes only in a setJwt transaction whose caller holds
\* BACKEND_ROLE when it calls, and a setJwt transaction from an account
\* without the role (the admin, the user, a backend whose role was revoked)
\* reverts and leaves jwtTokens as it was.
C27_OnlyBackendWrites ==
    [][ /\ chain'.jwtTokens # chain.jwtTokens =>
              /\ chain'.tx.fn = "setJwt"
              /\ ~chain'.tx.reverted
              /\ chain'.tx.caller \in chain.backends
        /\ (Sends("setJwt") /\ chain'.tx.caller \notin chain.backends) =>
              /\ chain'.tx.reverted
              /\ chain'.tx.error = "AccessControlUnauthorizedAccount"
              /\ chain'.jwtTokens = chain.jwtTokens ]_vars

\* C27 witness: a backend that wrote a user's JWT and then lost its role has
\* just had a setJwt reverted.
C27_Witness ==
    /\ chain.tx.fn = "setJwt" /\ chain.tx.reverted
    /\ chain.tx.caller = "backend" /\ "backend" \notin chain.backends
    /\ chain.jwtTokens["A"] = "j1"
    /\ chain.tx.user = "A" /\ chain.tx.jwt = "j2"

\* The transaction emitted exactly UsernameUpdated(user, name) for some name.
EmitsUsernameUpdated(tx) ==
    \E name \in NewUsernames : tx.events = {<< "UsernameUpdated", tx.user, name >>}

C29_NeverSetReverts ==
    [][ (Sends("setUsername") /\ chain'.tx.user \notin chain.everSet) =>
          /\ chain'.tx.reverted
          /\ chain'.tx.error = "InvalidJwt"
          /\ chain'.tx.events = {} ]_vars

(* -------------------- claims about the AuthController ------------------ *)

\* The step is a session store command that rejects.
StoreCommandFails ==
    \/ signInStoreFails("p1")
    \/ redisFails("p1")
    \/ \E cookie \in AccessCookies : postSignOutFails("p1", cookie)

\* C22: a request in which a session store command rejects ends with a 5xx
\* error, in signIn, refresh, the guard and the sign-out endpoint.
C22_StoreFailureIs5xx ==
    [][ StoreCommandFails => last'.status >= 500 ]_vars

\* The client holds a stored session for address a: its refreshToken cookie
\* is the token in a's refresh slot.
HoldsSession(a) ==
    \E R \in http.jar.refreshToken : SlotIs("refresh", a, R)

\* C23: when the sign-out endpoint answers 204 to a client that holds a
\* stored session for an address (and the delete did not reject), both
\* cookies are cleared and no token of that address is accepted afterwards,
\* whatever accessToken cookie the request carried.
C23_SignOutEndpoint ==
    [][ \A a \in Addr :
          ( /\ HoldsSession(a)
            /\ last'.op = "postSignOut" /\ last'.status = 204
            /\ http' # http
            /\ ~postSignOutFails("p1", last'.accessToken) ) =>
          /\ http'.jar = NoCookies
          /\ getTokenKey("access", a) \notin DOMAIN redis'
          /\ getTokenKey("refresh", a) \notin DOMAIN redis' ]_vars

\* The step is the end of the sign-in request in slot p.
SignInEnds(p) ==
    /\ pc[p] \in {"si_update", "si_sign", "si_store", "si_mirror"}
    /\ pc'[p] = "idle"

\* C26: the sign-in endpoint answers a rejected mirror call with 500 'Failed
\* to add JWT to contract' and no body, a resolved one with the address and
\* the access token; a sign-in request that fails in AuthService.signIn ends
\* without a mirror call and without a cookie.
C26_MirrorHardFailure ==
    [][ \A p \in Proc :
          /\ (pc[p] = "si_mirror" /\ SignInEnds(p)) =>
                \E resolves \in BOOLEAN :
                   /\ http'.mirrored = http.mirrored \cup
                          {Mirror(loc[p].address, loc[p].accessToken, resolves)}
                   /\ resolves =>
                         /\ last'.status = 201
                         /\ last'.body = {[address |-> loc[p].address,
                                           accessToken |-> loc[p].accessToken]}
                   /\ ~resolves =>
                         /\ last'.status = 500
                         /\ last'.error = "Failed to add JWT to contract"
                         /\ last'.body = {}
          /\ (pc[p] # "si_mirror" /\ SignInEnds(p)) =>
                /\ last'.status # 201
                /\ http' = http
          /\ (pc[p] \notin {"si_mirror", "rf_store"} /\ pc'[p] # pc[p] /\ pc'[p] # "idle") =>
                http' = http ]_vars

\* C26 witness: the mirror call for A's sign-in was rejected and the request
\* ended with 500.
C26_Witness ==
    /\ last.op = "postSignIn" /\ last.status = 500
    /\ \E m \in http.mirrored : m.address = "A" /\ ~m.resolved

(* --------------------- claims about the user routes -------------------- *)

\* A request to a protected route: its Authorization header and its
\* accessToken cookie, each present or not.
CookieRequest(token) == [authorization |-> {}, accessToken |-> {token}]
BearerRequest(token) ==
    [authorization |-> {[scheme |-> "Bearer ", token |-> token]}, accessToken |-> {}]

\* ExtractJwt.fromAuthHeaderAsBearerToken(): the Authorization header of the
\* request, if any; the cookies are not read.
fromAuthHeaderAsBearerToken(request) == request.authorization

\* The guard, run to its end in the present state on the request, authorizes
\* it: the extractor finds a header and the header passes every check.
RequestAuthorized(request) ==
    \E header \in fromAuthHeaderAsBearerToken(request) :
        /\ validateChecks(header).status = 200
        /\ SlotHolds(getTokenKey("access", header.token.payload.publicAddress),
                     replaceBearer(header))
        /\ \E a \in DOMAIN users : users[a].id = header.token.payload.id

\* C24: a request that carries a valid, stored access token only in the
\* accessToken cookie is authorized, as the one that carries it as a bearer
\* header is.
C24_CookieOrBearer ==
    \A t \in TokenInputs :
        RequestAuthorized(BearerRequest(t)) => RequestAuthorized(CookieRequest(t))

\* C25: PUT /user/profile by an authorized caller answers 400 and changes no
\* identity when the username has fewer than 3 characters, and otherwise
\* sets the username of the caller's identity, only that, and answers with
\* the updated identity.
C25_UpdateProfile ==
    [][ \A p \in Proc :
          (pc[p] = "u_update" /\ Moves(p)) =>
             LET a == loc[p].user.publicAddress
                 username == loc[p].username
             IN IF length(username) < 3
                THEN last'.status = 400 /\ users' = users
                ELSE /\ last'.status = 200
                     /\ users' = [users EXCEPT ![a].username = username]
                     /\ last'.user = users'[a] ]_vars

\* C30: the access token a successful refresh of R returns is signed with
\* the access secret over R's payload, with an expiration counted from its
\* own signing time, whatever the identity's record is by then.
C30_RefreshPayload ==
    [][ \A p \in Proc :
          (RefreshReturns(p) /\ last'.status = 200) =>
             \E R \in {loc[p].refreshToken} :
                LET new == last'.accessToken IN
                /\ new.secret = "access"
                /\ new.payload = R.payload
                /\ R.iat <= new.iat /\ new.iat <= now
                /\ new.exp = new.iat + cfg.accessExpiresIn ]_vars

\* C30 witness: a refresh has returned an access token whose payload carries
\* the username of the sign-in while the identity's record has another.
C30_Witness ==
    /\ last.op = "refresh" /\ last.status = 200
    /\ \E a \in DOMAIN users :
          /\ last.accessToken.payload.publicAddress = a
          /\ last.accessToken.payload.username # users[a].username
          /\ SlotIs("access", a, last.accessToken)

(* ----------------------- claims about the guard ------------------------ *)

\* The request in slot p presents a token that verifies and is the one in
\* the access slot of its address, and no identity has the payload's id.
OrphanToken(p) ==
    /\ pc[p] = "v_find"
    /\ verifyAsync(loc[p].token.token, "access", now)
    /\ SlotHolds(getTokenKey("access", loc[p].payload.publicAddress), loc[p].token)
    /\ \A a \in DOMAIN users : users[a].id # loc[p].payload.id

\* C31: a request whose token verifies and equals the stored access slot,
\* while no identity has the payload's id any more, is answered 401 by the
\* guard's last step and never reaches the handler.
C31_GuardNeedsIdentity ==
    [][ \A p \in Proc :
          (OrphanToken(p) /\ Moves(p)) =>
             /\ last'.op = "validate" /\ last'.status = 401
             /\ pc'[p] = "idle"
             /\ users' = users ]_vars

\* C31 witness: the guard has just rejected with 401 a token that is still
\* the one in the access slot of an address whose identity was deleted.
C31_Witness ==
    /\ last.op = "validate" /\ last.status = 401 /\ last.error = "Unauthorized"
    /\ "A" \notin DOMAIN users
    /\ \E t \in written["A"] : SlotIs("access", "A", t) /\ verifyAsync(t, "access", now)

(* --------------------- claims about the configuration ------------------ *)

\* What the claim says parseDuration returns for the values of EnvValues:
\* n times the unit for d, h, m, s, the sum over all number-unit pairs,
\* n minutes for '<n>ms', and parseInt of the input when no unit is there.
ClaimedDuration ==
    ( << "1", "h" >> :> 3600000 ) @@ ( << "7", "d" >> :> 604800000 ) @@
    ( << "1", "5", "m" >> :> 900000 ) @@ ( << "3", "0", "s" >> :> 30000 ) @@
    ( << "5", "0", "0", "m", "s" >> :> 500 * 60000 ) @@
    ( << "1", "m", " ", "3", "0", "s" >> :> 60000 + 30000 ) @@
    ( << "2", " ", "h" >> :> 7200000 ) @@ ( << "5", "0", "0" >> :> 500 ) @@
    ( << "0", "s" >> :> 0 ) @@ ( << "a", "b", "c" >> :> NaN ) @@
    ( << "9", "0", "x" >> :> 90 )

\* C33: the expirations of the loaded configuration are what the claim says
\* parseDuration returns for the environment's values.
C33_ParseDuration ==
    cfg # NoConfig =>
        /\ cfg.accessExpiresIn = ClaimedDuration[cfg.env[1]]
        /\ cfg.refreshExpiresIn = ClaimedDuration[cfg.env[2]]

\* C33 witness: the configuration was loaded with JWT_ACCESS_EXPIRES_IN =
\* '500ms' and the access expiration is 500 minutes.
C33_Witness ==
    /\ cfg # NoConfig
    /\ cfg.env[1] = << "5", "0", "0", "m", "s" >>
    /\ cfg.accessExpiresIn = 30000000
    /\ cfg.env[2] = << "1", "m", " ", "3", "0", "s" >>
    /\ cfg.refreshExpiresIn = 90000

\* C32: every entry of the session store carries a finite TTL, whatever the
\* configured expirations are.
C32_FiniteTtl ==
    \A k \in DOMAIN redis : ~redis[k].persist

(* ------------------- claims about the event listener ------------------- *)

\* The identity store after the listener in slot p has set the username.
UsernameSet(p) ==
    [users EXCEPT ![loc[p].userAddress].username = loc[p].newUsername]

\* The username of the event is held by another identity than the one the
\* listener found.
Taken(p) ==
    \E a \in DOMAIN users \ {loc[p].userAddress} :
        users[a].username = loc[p].newUsername

\* C34 as stated: a listener that found the username free and the identity
\* present sets the username.
C34_Original ==
    [][ \A p \in Proc :
          (pc[p] = "ev_update" /\ Moves(p)) => users' = UsernameSet(p) ]_vars

\* C34 (as amended): the listener sets the identity's username exactly when
\* it found the username free, found the identity, and no other identity
\* has the username when its update runs; in every other case the identity store
\* is unchanged; each of its steps ends in the log or goes on, never in an
\* error response.
C34_EventHandler ==
    [][ \A p \in Proc :
          /\ (pc[p] = "ev_find" /\ Moves(p)) =>
                /\ users' = users
                /\ IF loc[p].userAddress \in DOMAIN users
                   THEN pc'[p] = "ev_update"
                   ELSE pc'[p] = "idle" /\ last'.level = "error"
          /\ (pc[p] = "ev_update" /\ Moves(p)) =>
                /\ pc'[p] = "idle"
                /\ IF Taken(p)
                   THEN users' = users /\ last'.level = "error"
                   ELSE users' = UsernameSet(p) /\ last'.level = "log"
          /\ (pc'[p] = "ev_find" /\ Moves(p)) =>
                /\ users' = users
                /\ \A a \in DOMAIN users : users[a].username # loc'[p].newUsername
          /\ (pc[p] \in {"ev_find", "ev_update"} /\ Moves(p)) => last'.status = 0
          /\ (last'.op = "UsernameUpdated" /\ last' # last) =>
                /\ last'.status = 0
                /\ last'.level = "error" => users' = users ]_vars

\* C34 witness: two listeners ran side by side for the same username; the
\* first has set it and the second's update was rejected and logged.
C34_Witness ==
    /\ last = Logged("error", "Error processing UsernameUpdated event")
    /\ \E a \in DOMAIN users : users[a].username = << "neo" >>
    /\ \A p \in Proc : pc[p] = "idle"

(* ---------------- claims about refresh overlapping others -------------- *)

\* A signOut of the address has completed after its latest signIn: every
\* access token a signIn of the address returned was written before a
\* signOut.
SignedOutSince(a) ==
    /\ revoked[a] # {}
    /\ \A R \in refreshOf[a] : AccessOf(R) \in revoked[a]

\* C35: once signOut of an address has completed and no signIn of it has
\* succeeded since, no access token of the address passes the guard.
C35_SignOutFinal ==
    \A a \in Addr :
        SignedOutSince(a) =>
            \A t \in TokenInputs : t.payload.publicAddress = a => ~GuardAccepts(t)

\* C36: whenever no request is in flight and both slots of an address are
\* filled, the access token stored carries the payload of the refresh token
\* stored, that of the one sign-in that issued it.
C36_SameSignIn ==
    \A a \in Addr :
        ( /\ \A p \in Proc : pc[p] = "idle"
          /\ Has(getTokenKey("access", a))
          /\ Has(getTokenKey("refresh", a)) ) =>
            RedisGet(getTokenKey("access", a)).payload =
               RedisGet(getTokenKey("refresh", a)).payload

\* C37: a signIn call changes the identity's stored nonce if and only if it
\* returns tokens.  A step that ends a signIn call with an error leaves the
\* stored nonce equal to the nonce the call was made with (the nonce
\* comparison passed, so that is the nonce as it was before the call), and a
\* step that ends it with tokens leaves a different one.
C37_NonceAtomic ==
    [][\A p \in Proc :
          (loc[p] # NoLoc /\ loc[p].op = "signIn" /\ pc[p] = "si_store"
              /\ pc'[p] = "idle")
          => ((last'.status = 200)
                 <=> (users'[loc[p].address].nonce # loc[p].dto.nonce))]_vars

\* C38: a POST /auth/sign-in request that ends with an error response leaves
\* no usable session behind: when the step that ends the request answers with
\* a status of 400 or more, neither token signed while handling the request
\* is accepted by the access guard or by refresh in the state it leaves.
C38_NoSessionOnError ==
    [][\A p \in Proc :
          (pc[p] \in {"si_store", "si_mirror"} /\ pc'[p] = "idle"
              /\ last'.status >= 400)
          => \A a \in {loc[p].accessToken} : \A r \in {loc[p].refreshToken} :
                /\ ~GuardAccepts(a)'
                /\ ~RefreshAccepts(r)']_vars

\* The step ends a refresh request of slot p with an error.
RefreshFails(p) ==
    /\ last'.op = "refresh" /\ last'.status # 200
    /\ \/ pc[p] \in {"rf_get", "rf_sign", "rf_store"} /\ pc'[p] = "idle"
       \/ (\A q \in Proc : pc[q] = "idle") /\ pc' = pc /\ last' # last

\* C39: a refresh call that fails leaves every slot of the session store and
\* the identity store unchanged.  A request without a refreshToken cookie
\* ends with 400 'Refresh token is not defined!'; a token that does not
\* verify with the refresh secret or whose payload has no publicAddress ends
\* with 401, and so does a token that is not the string in the refresh slot
\* of its address when the slot is read; the only other failure is a
\* rejected store command, which ends with 503.
C39_RefreshFailureFrame ==
    /\ [](\A token \in TokenInputs :
            /\ refreshChecks(token).status \in {200, 401}
            /\ (~Verifies(token, "refresh") \/ token.payload.publicAddress = "")
                  => refreshChecks(token).status = 401)
    /\ [][\A p \in Proc : RefreshFails(p) =>
            /\ redis' = redis
            /\ users' = users
            /\ pc[p] = "idle" =>
                  /\ (last'.refreshToken = {}) <=> (last'.status = 400)
                  /\ (last'.refreshToken # {}) <=> (last'.status = 401)
                  /\ last'.status = 400
                        => last'.error = "Refresh token is not defined!"
            /\ pc[p] = "rf_get" =>
                  /\ last'.status \in {401, 503}
                  /\ last'.status = 401
                        => ~SlotHolds(getTokenKey("refresh",
                                                 loc[p].decoded.publicAddress),
                                     [bare |-> TRUE, token |-> loc[p].refreshToken])
            /\ pc[p] \in {"rf_sign", "rf_store"} => last'.status = 503]_vars

\* A refresh was refused at the store read while the address of an identity
\* had both slots filled.
C39_Witness ==
    /\ last = Fail("refresh", 401, "Refresh token not found or expired")
    /\ \E a \in DOMAIN users : KeysOf(a) \subseteq DOMAIN redis

\* The step is a getNonce of slot p that returns a nonce for an identity
\* that existed when the call looked it up.
GetNonceRotates(p) ==
    /\ pc[p] = "gn_write" /\ pc'[p] = "idle"
    /\ loc[p].found
    /\ last'.op = "getNonce" /\ last'.status = 200

\* C40: getNonce leaves the session store unchanged.  A getNonce that
\* returns for an existing identity changes that identity's nonce and no
\* other field of it, leaves every other identity as it was, and every token
\* the access guard or refresh accepted before the call is accepted after it.
C40_GetNonceFrame ==
    [][\A p \in Proc :
          /\ (pc[p] \in {"idle", "gn_write"} /\ last'.op = "getNonce")
                => redis' = redis
          /\ GetNonceRotates(p) =>
                /\ DOMAIN users' = DOMAIN users
                /\ \A a \in DOMAIN users :
                      IF a = loc[p].address
                      THEN /\ users'[a] = [users[a] EXCEPT !.nonce = loc[p].nonce]
                           /\ users'[a].nonce # users[a].nonce
                      ELSE users'[a] = users[a]
                /\ \A t \in TokenInputs :
                      /\ GuardAccepts(t) => GuardAccepts(t)'
                      /\ RefreshAccepts(t) => RefreshAccepts(t)']_vars

\* getNonce has returned a new nonce for an address whose access and refresh
\* tokens, signed with an earlier nonce in their payload, are accepted.
C40_Witness ==
    /\ last.op = "getNonce" /\ last.status = 200
    /\ \E a \in KnownTokens, r \in KnownTokens :
          /\ a.payload.publicAddress = last.address
          /\ r.payload.publicAddress = last.address
          /\ GuardAccepts(a) /\ RefreshAccepts(r)
          /\ SlotIs("access", last.address, a)
          /\ SlotIs("refresh", last.address, r)
          /\ users[last.address].nonce = last.nonce
          /\ a.payload.nonce # last.nonce
====
